---- MODULE Spec2Model ----
(***************************************************************************)
(* A model of the gexf-render-video pipeline.                              *)
(*                                                                         *)
(* slice-gexf (src/unnamed/part_006) is a straight-line script: it parses  *)
(* a GEXF document, validates the graph attributes, derives the window     *)
(* from the command-line options, finds the earliest and latest node date, *)
(* builds the empty slices and fills them with the nodes.                  *)
(*                                                                         *)
(* Numbers.  JavaScript numbers are IEEE-754 doubles.  With a "date" or     *)
(* "dateTime" time format the script works in milliseconds and the options *)
(* are in seconds: every number is a whole number far below 2^53 and the   *)
(* arithmetic is exact.  With a numeric time format the step default is    *)
(* 0.1, which is no double: the script adds the double nearest to it, and  *)
(* each sum is rounded to the nearest double.  The model keeps every       *)
(* number exactly and rounds each sum as the hardware does.                *)
(***************************************************************************)
EXTENDS Integers, Sequences, FiniteSets, TLC

\* ---------------------------------------------------------------- bounds
\* Time attributes of the document are whole numbers 0..MaxTime (days after
\* 1970-01-01 for the date formats).
MaxTime == 3
\* Nodes of a document.
MaxNodes == 2
\* Spells of one node or edge.
MaxSpells == 1
\* Edges of a document.
MaxEdges == 1
\* Time attributes (start, end, timestamp) on the nodes of one document, and
\* on its edges.
MaxAttrs == 2

MaxEdgeAttrs == 1
\* Nodes of a document when every graph attribute and option is tried.
SweepNodes == 1
\* Largest value of the range and step options, in whole units (days for
\* the date formats).
MaxOption == 2
\* Largest date and largest option value of the single-node documents.
ScenarioMaxTime == 10

ScenarioMaxOption == 10
\* Node ids of the second slice of a two-slice file, and of its first slice.
SeriesNodes == 3

SeriesOldNodes == 2

\* Slices of the file render-video reads.
MaxFrames == 2

\* Nodes within reach of the window of the voronoi map that is followed,
\* the last column and the last row of the window, and the largest node size.
MaxTracked == 2

WindowWidth == 1

WindowHeight == 0

MaxNodeSize == 1

\* Nodes of the graph whose labels are selected, the last pixel of the row
\* of the collision bitmap, the largest half width of a label and the
\* largest radius of a node, in pixels.
MaxLabelNodes == 3

MaxPixel == 3

MaxHalfWidth == 1

MaxRadius == 2

\* Calls of renderFrame.
MaxFrameCalls == 2

\* Nodes of a slice given to ns.init, the largest absolute value of their
\* coordinates and their largest size.
MaxInitNodes == 2

MaxInitCoord == 1

MaxInitSize == 2

\* Math.random() takes the values k / RandomSteps.
RandomSteps == 1

\* Characters of a label, and the largest label_max_length.
MaxLabelLength == 4

MaxMaxLength == 5

\* The largest coordinate of the ends of the edge drawn, in pixels.
MaxEdgeCoord == 4

\* The same for the files laid out with the linlog option given.
LinlogNodes == 2

LinlogOldNodes == 1

\* Slices of the file layout-slices reads.
MaxSnapshots == 2
\* Node coordinates after a layout are 0..MaxCoord.
MaxCoord == 1
\* The slice loop is cut after this many slices (it is unbounded in the
\* code when the step is not positive).
MaxSlices == 25

\* ------------------------------------------------------------- constants
\* Tenths in a unit: the step default of the numeric formats is 0.1.
Tenths == 10

SecondsPerDay == 24 * 60 * 60

\* The double the literal 0.1 denotes is T / 2^56 with T = 0x1999999999999A
\* = 7205759403792794.  Ten of them exceed 1 by TenthExcess / 2^56, and
\* T mod 4096 is TenthResidue.
TenthExcess == 4

TenthResidue == 2458

\* ---------------------------------------------------------------- numbers
\* A number is plus or minus infinity (inf = 1, -1) or finite (inf = 0).
\* A finite number of a numeric time format is the pair (v, d) that stands
\* for (v * T + d) / 2^56: v counts tenths and d is what the roundings have
\* added, in units of 2^-56.  |d| stays far below T, so the pairs are ordered
\* as the numbers are.  A finite number of a date format is the pair
\* (milliseconds, 0).
Infinity == [inf |-> 1, v |-> 0, d |-> 0]

NegInfinity == [inf |-> -1, v |-> 0, d |-> 0]

\* The whole number n of a numeric format: n * 2^56 = 10n * T - 4n.
Whole(n) == [inf |-> 0, v |-> Tenths * n, d |-> -TenthExcess * n]

\* The literal 0.1
PointOne == [inf |-> 0, v |-> 1, d |-> 0]

\* n milliseconds
Millis(n) == [inf |-> 0, v |-> n, d |-> 0]

\* a < b
Lt(a, b) == \/ a.inf < b.inf
            \/ a.inf = 0 /\ b.inf = 0 /\ (a.v < b.v \/ (a.v = b.v /\ a.d < b.d))

\* a <= b
Leq(a, b) == \/ a.inf < b.inf
             \/ a.inf = 0 /\ b.inf = 0 /\ (a.v < b.v \/ (a.v = b.v /\ a.d <= b.d))

MathMin(a, b) == IF Lt(b, a) THEN b ELSE a

MathMax(a, b) == IF Lt(a, b) THEN b ELSE a

Neg(x) == [x EXCEPT !.v = -@, !.d = -@]

\* x >= 2^(j-4), for a finite x >= 0 of a numeric format: 2^(j-4) is the
\* whole number (10 * 2^(j-4), -4 * 2^(j-4)) when j >= 4, 0.5 is (5, -2),
\* 0.25 lies between two and three tenths and 0.125 between one and two.
AtLeast(x, j) ==
    IF j >= 4 THEN \/ x.v > Tenths * 2^(j - 4)
                   \/ x.v = Tenths * 2^(j - 4) /\ x.d >= -TenthExcess * 2^(j - 4)
    ELSE IF j = 3 THEN x.v > 5 \/ (x.v = 5 /\ x.d >= -2)
    ELSE IF j = 2 THEN x.v >= 3
    ELSE IF j = 1 THEN x.v >= 2
    ELSE TRUE

\* The doubles of [2^(j-4), 2^(j-3)) are 2^j units of 2^-56 apart (53
\* significant bits); numbers stay below 2^7.
Binade(x) == CHOOSE j \in 0 .. 10 : AtLeast(x, j) /\ (j = 10 \/ ~AtLeast(x, j + 1))

\* Round to nearest, ties to even, of a finite x >= 0 of a numeric format.
RoundAbs(x) ==
    LET u == 2^Binade(x)
        bits == x.v * TenthResidue + x.d
        r == bits % u
        odd == bits % (2 * u) >= u
    IN  IF r = 0 THEN x
        ELSE IF 2 * r < u \/ (2 * r = u /\ ~odd) THEN [x EXCEPT !.d = @ - r]
        ELSE [x EXCEPT !.d = @ + (u - r)]

\* The double nearest to a finite x of a numeric format.
RoundToDouble(x) ==
    IF x.v < 0 \/ (x.v = 0 /\ x.d < 0) THEN Neg(RoundAbs(Neg(x))) ELSE RoundAbs(x)

\* ------------------------------------------------------------ attributes
\* getAttribute returns "" for an absent attribute and the scripts test the
\* string for truthiness: an attribute is <<>> (absent) or <<t>>.
Absent == <<>>

Present(a) == a # <<>>

\* The value of an attribute, as a set: empty when the attribute is absent.
Values(a) == {a[k] : k \in 1 .. Len(a)}

Times == 0 .. MaxTime

OptTimes == {Absent} \cup {<<t>> : t \in Times}

SeqsUpTo(S, n) == UNION {[1 .. k -> S] : k \in 0 .. n}

\* ------------------------------------------------------------- documents
\* A time attribute of a document is named by its place: <<k, 0, f>> is
\* attribute f of the k-th element itself, <<k, j, f>> attribute f of its
\* j-th <spell>.  shape[k] is the number of spells of the k-th element.
Slots(shape, fields) ==
    UNION {{<<k, j, f>> : j \in 0 .. shape[k], f \in fields} : k \in 1 .. Len(shape)}

\* The ways to give a value to at most n of the slots.
Assignments(slots, n) ==
    UNION {[P -> Times] : P \in {Q \in SUBSET slots : Cardinality(Q) <= n}}

Attribute(a, slot) == IF slot \in DOMAIN a THEN <<a[slot]>> ELSE Absent

\* A <node>, <edge> or <spell> element's time attributes.
Element(a, k, j) ==
    [start |-> Attribute(a, <<k, j, "start">>), end |-> Attribute(a, <<k, j, "end">>),
     timestamp |-> Attribute(a, <<k, j, "timestamp">>)]

\* The <node> elements of a document: the node at position k has id k.
NodeDomnodes(shape, a) ==
    [k \in 1 .. Len(shape) |->
        [start |-> Element(a, k, 0).start, end |-> Element(a, k, 0).end,
         timestamp |-> Element(a, k, 0).timestamp,
         spells |-> [j \in 1 .. shape[k] |-> Element(a, k, j)]]]

\* The <edge> elements of a document of order nodes: an edge joins two
\* different nodes; ends[k] is the <<source, target>> of the k-th edge.
EdgeDomnodes(ends, shape, a) ==
    [k \in 1 .. Len(shape) |->
        [source |-> ends[k][1], target |-> ends[k][2],
         start |-> Element(a, k, 0).start, end |-> Element(a, k, 0).end,
         timestamp |-> Element(a, k, 0).timestamp,
         spells |-> [j \in 1 .. shape[k] |-> Element(a, k, j)]]]

NodeLists(fields, maxNodes, maxSpells, maxAttrs) ==
    UNION {{NodeDomnodes(sh, a) : a \in Assignments(Slots(sh, fields), maxAttrs)} :
              sh \in SeqsUpTo(0 .. maxSpells, maxNodes)}

EdgeLists(fields, order, maxEdges, maxSpells, maxAttrs) ==
    UNION {{EdgeDomnodes(es[1], es[2], a) : a \in Assignments(Slots(es[2], fields), maxAttrs)} :
              es \in UNION {[1 .. m -> {p \in (1 .. order) \X (1 .. order) : p[1] # p[2]}]
                            \X [1 .. m -> 0 .. maxSpells] : m \in 0 .. maxEdges}}

\* ----------------------------------------------------------------- state
VARIABLES
    mode,               \* <graph mode=...>
    timeformat,         \* <graph timeformat=...>
    timerepresentation, \* <graph timerepresentation=...>
    options,            \* program.opts(): range and step, <<>> when not given
    nodeDomnodes,       \* the <node> elements
    edgeDomnodes,       \* the <edge> elements
    windowRange,
    windowStep,
    dateMin,
    dateMax,
    slices,
    i,                  \* loop variable of "Build empty slices"
    nodeIndex,          \* loop variable of "Fill slices with nodes"
    pc,                 \* the statement the script is at
    exitCode,           \* <<>> while running, <<c>> once the process has ended
    \* layout-slices (src/unnamed/part_002), a process of its own
    data,               \* data.slices, parsed from the input file
    sample,             \* options.sample, <<>> when not given
    linlog,             \* options.linlog, <<>> when not given
    iterationsfactor,   \* +options.iterationsfactor || 10
    sweeps,             \* calls of noverlap.assign made by the last renderLayout
    lastNodesIndex,     \* node id -> position in the previous slice
    sliceIndex,         \* the slice data.slices.forEach is at
    g,                  \* the node attributes of the graph g, <<>> when there is none
    layoutPc,
    layoutExitCode,
    \* render-video (src/render-video.js), a process of its own
    frameSample,        \* options.sample, <<>> when not given
    frameSlices,        \* data.slices.length
    faulty,             \* the layers whose drawing throws
    bgImage,            \* the layers drawn on the background image
    layeredImage,       \* the layers drawn on the layered image
    canvas,             \* <<>>, or <<c>> once render has returned the canvas c
    renderPc,
    renderExitCode,
    \* ns.getVoronoiData of render-video
    gOrder,             \* g.order
    tracked,            \* the nodes of g.nodes() within reach of the window, in order
    vidPixelMap,        \* pixel of the window -> voronoi id
    dPixelMap,          \* pixel of the window -> distance
    voronoiIndex,       \* the node g.nodes().forEach is at, among the tracked ones
    voronoiPc,
    \* ns.getVisibleLabels of render-video
    labelNodes,         \* the nodes of ns.g, in the order of g.nodes()
    nodesBySize,        \* ns._nodesBySize, <<>> before it is computed
    labelOrder,         \* nodesBySize of ns.getVisibleLabels: the order of its forEach
    labelDrawCount,
    visibleLabels,
    bitmap,             \* the pixels set in the canvas of ctx
    labelIndex,         \* the turn nodesBySize.forEach is at
    labelPc

labelVars == <<labelNodes, nodesBySize, labelOrder, labelDrawCount, visibleLabels, bitmap,
               labelIndex, labelPc>>

voronoiVars == <<gOrder, tracked, vidPixelMap, dPixelMap, voronoiIndex, voronoiPc>>

frameVars == <<frameSample, frameSlices, faulty, bgImage, layeredImage, canvas, renderPc,
               renderExitCode>>

\* renderFrame and the caches of the renderer it makes
VARIABLES
    renderer,           \* the namespace ns of the last newRenderer()
    frameCalls,         \* calls of renderFrame so far
    rendered,           \* the slice the last call of renderFrame was given
    computations,       \* structure -> times it was computed during the last call
    returned            \* <<>>, or the structure last requested with the value returned

cacheVars == <<renderer, frameCalls, rendered, computations, returned>>

\* ns.init and the graphs of a call of renderFrame
VARIABLES
    gOrd,               \* number of nodes of the slice; its nodes are 1 .. gOrd
    objects,            \* address -> attributes of the node object stored there
    nsG,                \* <<>>, or ns.g: node -> address of its attributes
    initPc,             \* position of the call of renderFrame
    given               \* address -> attributes when renderFrame was called

initVars == <<gOrd, objects, nsG, initPc, given>>

\* ns.truncateWithEllipsis
VARIABLES
    labelString,        \* the string given, a sequence of characters
    maxLength,          \* the n given
    truncated           \* <<>>, or the string returned

truncateVars == <<labelString, maxLength, truncated>>

\* ns.drawEdgesLayer, for one edge
VARIABLES
    n_s,                \* position <<x, y>> of the source node, in pixels
    n_t,                \* position of the target node
    path,               \* <<>>, or the points of the path built for the edge
    strokes,            \* the segments stroked: <<from, to>>
    edgePc              \* "build", "draw" or "drawn"

edgeVars == <<n_s, n_t, path, strokes, edgePc>>

moreVars == <<cacheVars, initVars, truncateVars, edgeVars>>

renderVars == <<frameVars, voronoiVars, labelVars, moreVars>>

layoutVars ==
    <<data, sample, linlog, iterationsfactor, sweeps, lastNodesIndex, sliceIndex, g, layoutPc, layoutExitCode>>

slicerVars == <<mode, timeformat, timerepresentation, options, nodeDomnodes, edgeDomnodes,
                windowRange, windowStep, dateMin, dateMax, slices, i, nodeIndex, pc, exitCode>>

vars == <<slicerVars, layoutVars, renderVars>>

input == <<mode, timeformat, timerepresentation, options, nodeDomnodes, edgeDomnodes>>

Modes == {"dynamic", "static"}

TimeFormats == {"date", "dateTime", "integer", "double", "", "gYear"}

TimeRepresentations == {"interval", "timestamp", "", "spell"}

DateLike == timeformat = "date" \/ timeformat = "dateTime"

\* The numbers an option can be given: whole units, or whole days in
\* seconds for the date formats.
OptionValues(tf, from) ==
    {<<(IF tf \in {"date", "dateTime"} THEN SecondsPerDay ELSE 1) * k>> : k \in from .. MaxOption}

\* The number a string of digits converts to (+string, Date.parse).
Number(n) == IF DateLike THEN Millis(n) ELSE Whole(n)

\* x * ratio, where the product is exact: the ratio is 1, or x is whole.
Scaled(x, ratio) == [x EXCEPT !.v = @ * ratio, !.d = @ * ratio]

\* a + b and a - b for a finite b
Plus(a, b) ==
    IF a.inf # 0 THEN a
    ELSE LET sum == [inf |-> 0, v |-> a.v + b.v, d |-> a.d + b.d]
         IN  IF DateLike THEN sum ELSE RoundToDouble(sum)

Minus(a, b) == Plus(a, Neg(b))

\* render-video is not running.
FrameNotStarted ==
    /\ frameSample = Absent
    /\ frameSlices = 0
    /\ faulty = {}
    /\ bgImage = <<>>
    /\ layeredImage = <<>>
    /\ canvas = <<>>
    /\ renderPc = "off"
    /\ renderExitCode = <<>>

\* ns.getVoronoiData is not running.
VoronoiNotStarted ==
    /\ gOrder = 0
    /\ tracked = <<>>
    /\ vidPixelMap = <<>>
    /\ dPixelMap = <<>>
    /\ voronoiIndex = 0
    /\ voronoiPc = "off"

\* ns.getVisibleLabels is not running.
LabelsNotStarted ==
    /\ labelNodes = <<>>
    /\ nodesBySize = <<>>
    /\ labelOrder = <<>>
    /\ labelDrawCount = 0
    /\ visibleLabels = <<>>
    /\ bitmap = {}
    /\ labelIndex = 0
    /\ labelPc = "off"

\* The structures a renderer keeps once computed.
Structures ==
    {"voronoiData", "heatmapData", "hillshadingData", "nodesBySize", "nodeSizeExtent",
     "visibleLabels"}

\* renderFrame has not been called.
CacheNotStarted ==
    /\ renderer = [initialized |-> FALSE, g |-> Absent, cache |-> [st \in Structures |-> Absent]]
    /\ frameCalls = 0
    /\ rendered = 0
    /\ computations = [st \in Structures |-> 0]
    /\ returned = <<>>

\* An object no node has.
NoAttributes ==
    [x |-> Absent, y |-> Absent, size |-> Absent, color |-> Absent, label |-> Absent,
     vid |-> Absent]

Addresses == 1 .. 2 * MaxInitNodes

\* ns.init has not been called.
InitNotStarted ==
    /\ gOrd = 0
    /\ objects = [a \in Addresses |-> NoAttributes]
    /\ nsG = Absent
    /\ initPc = "notStarted"
    /\ given = objects

\* ns.truncateWithEllipsis has not been called.
TruncateNotStarted ==
    /\ labelString = <<>>
    /\ maxLength = 0
    /\ truncated = Absent

\* ns.drawEdgesLayer has not been called.
EdgeNotStarted ==
    /\ n_s = <<0, 0>>
    /\ n_t = <<0, 0>>
    /\ path = <<>>
    /\ strokes = <<>>
    /\ edgePc = "off"

MoreNotStarted ==
    CacheNotStarted /\ InitNotStarted /\ TruncateNotStarted /\ EdgeNotStarted

RendererNotStarted ==
    FrameNotStarted /\ VoronoiNotStarted /\ LabelsNotStarted /\ MoreNotStarted

\* layout-slices is not running.
LayoutNotStarted ==
    /\ data = <<>>
    /\ sample = Absent
    /\ linlog = Absent
    /\ iterationsfactor = 10
    /\ sweeps = 0
    /\ lastNodesIndex = <<>>
    /\ sliceIndex = 0
    /\ g = <<>>
    /\ layoutPc = "off"
    /\ layoutExitCode = <<>>

\* The state when the script starts on the parsed document d.
Start(d) ==
    /\ nodeDomnodes = d.nodes
    /\ edgeDomnodes = d.edges
    /\ windowRange = Millis(0)
    /\ windowStep = Millis(0)
    /\ dateMin = Infinity
    /\ dateMax = NegInfinity
    /\ slices = <<>>
    /\ i = Infinity
    /\ nodeIndex = 0
    /\ pc = "checkDynamic"
    /\ exitCode = <<>>
    /\ LayoutNotStarted
    /\ RendererNotStarted

\* Every graph attribute and option, over documents of at most SweepNodes
\* nodes without spells and without edges.
Init ==
    /\ mode \in Modes
    /\ timeformat \in TimeFormats
    /\ timerepresentation \in TimeRepresentations
    /\ options \in [range : {Absent} \cup OptionValues(timeformat, 0),
                    step : {Absent} \cup OptionValues(timeformat, MaxOption)]
    /\ \E ns \in NodeLists({"start", "end", "timestamp"}, SweepNodes, 0, MaxAttrs) :
          Start([nodes |-> ns, edges |-> <<>>])

\* The time attributes a document of the declared representation carries.
Fields == IF timerepresentation = "interval" THEN {"start", "end"} ELSE {"timestamp"}

\* Documents with spells or with edges, whose time attributes are those of
\* the declared time representation, under supported graph attributes.
InitMembership ==
    /\ mode = "dynamic"
    /\ timeformat \in {"integer", "date"}
    /\ timerepresentation \in {"interval", "timestamp"}
    /\ options \in [range : {Absent} \cup OptionValues(timeformat, 1), step : {Absent}]
    /\ \/ \E ns \in NodeLists(Fields, MaxNodes, MaxSpells, MaxAttrs) :
             Start([nodes |-> ns, edges |-> <<>>])
       \/ \E ns \in NodeLists(Fields, MaxNodes, 0, MaxAttrs) :
             \E es \in EdgeLists(Fields, Len(ns), MaxEdges, 0, MaxEdgeAttrs) :
                es # <<>> /\ Start([nodes |-> ns, edges |-> es])

\* Documents of a single node with an interval [start, end], integer time
\* format, with both options given.
InitScenario ==
    /\ mode = "dynamic"
    /\ timeformat = "integer"
    /\ timerepresentation = "interval"
    /\ options \in [range : {<<r>> : r \in 1 .. ScenarioMaxOption},
                    step : {<<q>> : q \in 1 .. ScenarioMaxOption}]
    /\ \E s \in 0 .. ScenarioMaxTime, e \in 0 .. ScenarioMaxTime :
          /\ s <= e
          /\ Start([nodes |-> <<[start |-> <<s>>, end |-> <<e>>, timestamp |-> Absent,
                                spells |-> <<>>]>>,
                    edges |-> <<>>])

\* ------------------------------------------------------------ the script
\* process.exit() without an argument ends the process with the success
\* code; an uncaught exception ends it with code 1.
ProcessExit == <<0>>

Uncaught == <<1>>

Halt(code) ==
    /\ exitCode' = code
    /\ UNCHANGED <<layoutVars, renderVars, input, windowRange, windowStep, dateMin, dateMax, slices, i, nodeIndex>>

Goto(label) ==
    /\ pc' = label
    /\ UNCHANGED <<layoutVars, renderVars, input, windowRange, windowStep, dateMin, dateMax, slices, i, nodeIndex,
                   exitCode>>

\* Check if dynamic
CheckDynamic ==
    /\ pc = "checkDynamic"
    /\ IF mode # "dynamic"
       THEN pc' = "exited" /\ Halt(ProcessExit)
       ELSE Goto("checkTimeFormat")

\* Date.parse of the t-th day after 1970-01-01, or +t.
timeParser(t) == IF DateLike THEN Number(t * SecondsPerDay * 1000) ELSE Number(t)

\* Check which time format to use
CheckTimeFormat ==
    /\ pc = "checkTimeFormat"
    /\ IF timeformat \in {"date", "dateTime", "integer", "", "double"}
       THEN Goto("checkTimeRepresentation")
       ELSE pc' = "exited" /\ Halt(ProcessExit)

\* Check time representation
CheckTimeRepresentation ==
    /\ pc = "checkTimeRepresentation"
    /\ IF timerepresentation \in {"interval", "", "timestamp"}
       THEN Goto("defaults")
       ELSE pc' = "exited" /\ Halt(ProcessExit)

windowRangeDefault == IF DateLike THEN Number(7 * 24 * 60 * 60) ELSE Number(1)

windowStepDefault == IF DateLike THEN Number(24 * 60 * 60) ELSE PointOne

windowUnitRatio == IF DateLike THEN 1000 ELSE 1

\* The range with the option left unread.
WindowRangeIgnoringOption(opts) == Scaled(windowRangeDefault, windowUnitRatio)

\* (options.range?+options.range:windowRangeDefault)*windowUnitRatio: an
\* option is a string, so every given value (also "0") is truthy.
WindowRangeOf(opts) ==
    Scaled(IF Present(opts.range) THEN Number(opts.range[1]) ELSE windowRangeDefault, windowUnitRatio)

\* (options.range?+options.range:windowStepDefault)*windowUnitRatio
WindowStepOf(opts) ==
    Scaled(IF Present(opts.range) THEN Number(opts.range[1]) ELSE windowStepDefault, windowUnitRatio)

\* Defaults
Defaults ==
    /\ pc = "defaults"
    /\ windowRange' = WindowRangeOf(options)
    /\ windowStep' = WindowStepOf(options)
    /\ pc' = "findDates"
    /\ UNCHANGED <<layoutVars, renderVars, input, dateMin, dateMax, slices, i, nodeIndex, exitCode>>

\* pileDates is assigned for "interval" and for "timestamp" only.
PileDatesDefined == timerepresentation \in {"interval", "timestamp"}

\* The keys pileDates adds to dates for one element.
pileDates(domnode) ==
    IF timerepresentation = "interval"
    THEN Values(domnode.start) \cup Values(domnode.end)
    ELSE Values(domnode.timestamp)

\* The dates of a node: its own and those of its spells.
NodeDates(nodeDomnode) ==
    pileDates(nodeDomnode)
    \cup UNION {pileDates(nodeDomnode.spells[j]) : j \in 1 .. Len(nodeDomnode.spells)}

RECURSIVE FoldDates(_, _, _)
\* dates.forEach(d => acc = f(acc, timeParser(d)))
FoldDates(f(_, _), acc, dates) ==
    IF dates = {} THEN acc
    ELSE LET d == CHOOSE x \in dates : TRUE
         IN  FoldDates(f, f(acc, timeParser(d)), dates \ {d})

AllDates == UNION {NodeDates(nodeDomnodes[k]) : k \in 1 .. Len(nodeDomnodes)}

\* Find earliest and latest dates
FindDates ==
    /\ pc = "findDates"
    /\ IF Len(nodeDomnodes) > 0 /\ ~PileDatesDefined
       THEN \* TypeError: pileDates is not a function
            pc' = "crashed" /\ Halt(Uncaught)
       ELSE /\ dateMin' = FoldDates(MathMin, Infinity, AllDates)
            /\ dateMax' = FoldDates(MathMax, NegInfinity, AllDates)
            /\ i' = FoldDates(MathMin, Infinity, AllDates)
            /\ pc' = "buildSlices"
            /\ UNCHANGED <<layoutVars, renderVars, input, windowRange, windowStep, slices, nodeIndex, exitCode>>

\* The slice pushed by one turn of the loop.
NewSlice(from) ==
    [start |-> from, end |-> Plus(from, windowRange), nodes |-> <<>>, edges |-> <<>>]

\* The loop condition with the window that ends at dateMax left out.
LoopConditionStrict == Lt(i, Minus(dateMax, windowRange))

\* i<=dateMax-windowRange
LoopCondition == Leq(i, Minus(dateMax, windowRange))

\* Build empty slices: one turn of the loop
BuildSlice ==
    /\ pc = "buildSlices"
    /\ LoopCondition
    /\ Len(slices) < MaxSlices
    /\ slices' = Append(slices, NewSlice(i))
    /\ i' = Plus(i, windowStep)
    /\ UNCHANGED <<layoutVars, renderVars, input, windowRange, windowStep, dateMin, dateMax, nodeIndex, pc, exitCode>>

\* Build empty slices: the loop ends
SlicesPrepared ==
    /\ pc = "buildSlices"
    /\ ~LoopCondition
    /\ pc' = "fillSlices"
    /\ nodeIndex' = 1
    /\ UNCHANGED <<layoutVars, renderVars, input, windowRange, windowStep, dateMin, dateMax, slices, i, exitCode>>

\* overlapDomnodeSlice with an interval that only touches the slice left out.
overlapDomnodeSliceStrict(domnode, slice) ==
    IF timerepresentation = "interval"
    THEN IF Present(domnode.start) \/ Present(domnode.end)
         THEN LET startDate == IF Present(domnode.start) THEN timeParser(domnode.start[1])
                                                         ELSE NegInfinity
                  endDate == IF Present(domnode.end) THEN timeParser(domnode.end[1])
                                                     ELSE Infinity
              IN  ~(Leq(endDate, slice.start) \/ Leq(slice.end, startDate))
         ELSE FALSE
    ELSE IF Present(domnode.timestamp)
         THEN LET tsDate == timeParser(domnode.timestamp[1])
              IN  Leq(slice.start, tsDate) /\ Lt(tsDate, slice.end)
         ELSE FALSE

\* overlapDomnodeSlice with a timestamp at the end of the slice taken in.
overlapDomnodeSliceClosed(domnode, slice) ==
    IF timerepresentation = "interval"
    THEN IF Present(domnode.start) \/ Present(domnode.end)
         THEN LET startDate == IF Present(domnode.start) THEN timeParser(domnode.start[1])
                                                         ELSE NegInfinity
                  endDate == IF Present(domnode.end) THEN timeParser(domnode.end[1])
                                                     ELSE Infinity
              IN  ~(Lt(endDate, slice.start) \/ Lt(slice.end, startDate))
         ELSE FALSE
    ELSE IF Present(domnode.timestamp)
         THEN LET tsDate == timeParser(domnode.timestamp[1])
              IN  Leq(slice.start, tsDate) /\ Leq(tsDate, slice.end)
         ELSE FALSE

\* Overlap rule.  A function that ends without a return gives undefined,
\* which the callers test for truthiness: FALSE.
overlapDomnodeSlice(domnode, slice) ==
    IF timerepresentation = "interval"
    THEN IF Present(domnode.start) \/ Present(domnode.end)
         THEN LET startDate == IF Present(domnode.start) THEN timeParser(domnode.start[1])
                                                         ELSE NegInfinity
                  endDate == IF Present(domnode.end) THEN timeParser(domnode.end[1])
                                                     ELSE Infinity
              IN  ~(Lt(endDate, slice.start) \/ Lt(slice.end, startDate))
         ELSE FALSE
    ELSE IF Present(domnode.timestamp)
         THEN LET tsDate == timeParser(domnode.timestamp[1])
              IN  Leq(slice.start, tsDate) /\ Lt(tsDate, slice.end)
         ELSE FALSE

\* Whether one of the spells of the element overlaps the slice.
SpellOverlaps(domnode, slice) ==
    \E j \in 1 .. Len(domnode.spells) : overlapDomnodeSlice(domnode.spells[j], slice)

checkNodeSlice(nodeDomnode, slice) ==
    IF timerepresentation = "interval"
    THEN IF Present(nodeDomnode.start) \/ Present(nodeDomnode.end)
         THEN overlapDomnodeSlice(nodeDomnode, slice)
         ELSE SpellOverlaps(nodeDomnode, slice)
    ELSE IF Present(nodeDomnode.timestamp)
         THEN overlapDomnodeSlice(nodeDomnode, slice)
         ELSE SpellOverlaps(nodeDomnode, slice)

\* slices.forEach(slice => ...) for the node of id nid
FillWith(nid, ss) ==
    [k \in 1 .. Len(ss) |->
        IF checkNodeSlice(nodeDomnodes[nid], ss[k])
        THEN [ss[k] EXCEPT !.nodes = Append(@, nid)]
        ELSE ss[k]]

\* Fill slices with nodes: one turn of the loop over the nodes
FillNode ==
    /\ pc = "fillSlices"
    /\ nodeIndex <= Len(nodeDomnodes)
    /\ slices' = FillWith(nodeIndex, slices)
    /\ nodeIndex' = nodeIndex + 1
    /\ UNCHANGED <<layoutVars, renderVars, input, windowRange, windowStep, dateMin, dateMax, i, pc, exitCode>>

\* The loop over the nodes ends and the script with it.
Finish ==
    /\ pc = "fillSlices"
    /\ nodeIndex > Len(nodeDomnodes)
    /\ pc' = "done"
    /\ exitCode' = <<0>>
    /\ UNCHANGED <<layoutVars, renderVars, input, windowRange, windowStep, dateMin, dateMax, slices, i, nodeIndex>>

Next ==
    \/ CheckDynamic
    \/ CheckTimeFormat
    \/ CheckTimeRepresentation
    \/ Defaults
    \/ FindDates
    \/ BuildSlice
    \/ SlicesPrepared
    \/ FillNode
    \/ Finish

Spec == Init /\ [][Next]_vars

SpecMembership == InitMembership /\ [][Next]_vars

SpecScenario == InitScenario /\ [][Next]_vars

\* --------------------------------------------------------- layout-slices
Coords == 0 .. MaxCoord

\* slice-gexf is not running.
SlicerNotStarted ==
    /\ mode = "" /\ timeformat = "" /\ timerepresentation = ""
    /\ options = [range |-> Absent, step |-> Absent]
    /\ nodeDomnodes = <<>> /\ edgeDomnodes = <<>>
    /\ windowRange = Millis(0) /\ windowStep = Millis(0)
    /\ dateMin = Infinity /\ dateMax = NegInfinity
    /\ slices = <<>> /\ i = Infinity /\ nodeIndex = 0
    /\ pc = "off" /\ exitCode = <<>>

\* A node of a slice as slice-gexf leaves it: an id, no position, no size.
\* A coordinate is <<>> (undefined) or <<n>>.
SliceNode(nid) == [id |-> nid, x |-> Absent, y |-> Absent, size |-> Absent]

\* The slices the input file can hold: node lists with or without a repeated
\* id, edges between any two ids (also an id that is not in the node list).
SliceInputs ==
    {[nodes |-> [k \in 1 .. Len(ids) |-> SliceNode(ids[k])], edges |-> es] :
        ids \in SeqsUpTo(1 .. MaxNodes, MaxNodes),
        es \in SeqsUpTo([source : 1 .. MaxNodes, target : 1 .. MaxNodes], MaxEdges)}

\* The state when the script starts on the loaded file d.
LayoutBegin(d) ==
    /\ data = d
    /\ sweeps = 0
    /\ lastNodesIndex = <<>>
    /\ sliceIndex = 0
    /\ g = <<>>
    /\ layoutPc = "start"
    /\ layoutExitCode = <<>>
    /\ SlicerNotStarted
    /\ RendererNotStarted

LayoutInit ==
    /\ sample \in {Absent} \cup {<<s>> : s \in 0 .. MaxSnapshots + 1}
    /\ linlog \in {Absent, <<"true">>}
    /\ iterationsfactor = 10
    /\ \E d \in SeqsUpTo(SliceInputs, MaxSnapshots) : LayoutBegin(d)

\* The sequence of the elements of the set S of numbers, in increasing order.
RECURSIVE Ascending(_)
Ascending(S) ==
    IF S = {} THEN <<>>
    ELSE LET lo == CHOOSE a \in S : \A b \in S : a <= b
         IN  <<lo>> \o Ascending(S \ {lo})

\* A well-formed slice: its nodes are the ids of N and its edges join the
\* pairs of E, each from the smaller id to the larger.
SeriesSlice(N, E) ==
    LET ids == Ascending(N)
        pairs == Ascending({p[1] * (SeriesNodes + 1) + p[2] : p \in E})
    IN  [nodes |-> [k \in 1 .. Len(ids) |-> SliceNode(ids[k])],
         edges |-> [k \in 1 .. Len(pairs) |->
                       [source |-> pairs[k] \div (SeriesNodes + 1),
                        target |-> pairs[k] % (SeriesNodes + 1)]]]

\* The well-formed slices over the ids 1..n.
SeriesSlices(n) ==
    {SeriesSlice(N, E) : <<N, E>> \in
        {q \in (SUBSET (1 .. n)) \X (SUBSET ((1 .. n) \X (1 .. n))) :
            \A p \in q[2] : p[1] < p[2] /\ p[1] \in q[1] /\ p[2] \in q[1]}}

\* Files of two well-formed slices, the second over more ids than the
\* first.
InitSeries ==
    /\ sample \in {Absent} \cup {<<s>> : s \in 0 .. MaxSnapshots + 1}
    /\ linlog \in {Absent, <<"true">>}
    /\ iterationsfactor = 10
    /\ \E s1 \in SeriesSlices(SeriesOldNodes), s2 \in SeriesSlices(SeriesNodes) :
          LayoutBegin(<<s1, s2>>)

\* The ids of the nodes of a slice, in the order of its node list.
Ids(slice) == {slice.nodes[k].id : k \in 1 .. Len(slice.nodes)}

\* BuildNetworkThrows with an addEdge that asks for the source only.
BuildNetworkThrowsOnSource(slice) ==
    \/ \E k, l \in 1 .. Len(slice.nodes) : k # l /\ slice.nodes[k].id = slice.nodes[l].id
    \/ \E k \in 1 .. Len(slice.edges) :
          \/ slice.edges[k].source \notin Ids(slice)
          \/ slice.edges[k].source = slice.edges[k].target

\* buildNetwork throws: g.addNode on an id the graph has, g.addEdge on a
\* source or target the graph has not, on a self loop (allowSelfLoops:
\* false), or on a second edge with the same source and target (the graph
\* is not a multigraph).
BuildNetworkThrows(slice) ==
    \/ \E k, l \in 1 .. Len(slice.nodes) : k # l /\ slice.nodes[k].id = slice.nodes[l].id
    \/ \E k \in 1 .. Len(slice.edges) :
          \/ slice.edges[k].source \notin Ids(slice)
          \/ slice.edges[k].target \notin Ids(slice)
          \/ slice.edges[k].source = slice.edges[k].target
    \/ \E k, l \in 1 .. Len(slice.edges) :
          /\ k # l
          /\ slice.edges[k].source = slice.edges[l].source
          /\ slice.edges[k].target = slice.edges[l].target

\* g.inDegree(nid): the edges of the slice are added as directed edges.
inDegree(slice, nid) == Cardinality({k \in 1 .. Len(slice.edges) : slice.edges[k].target = nid})

sizeMin == 10

sizeFactor == 2

\* setNodeSizes with the default options (sizePower 1): the size is the
\* square root of this number, which is what the model keeps.
NodeSize(slice, nid) == sizeMin + sizeFactor * inDegree(slice, nid)

\* The slice the script is working on: options.sample counts from 0.
Current == IF Present(sample) THEN sample[1] + 1 ELSE sliceIndex

\* The node attributes of g after buildNetwork and setNodeSizes, in the
\* order the nodes were added.
Network(slice) ==
    [k \in 1 .. Len(slice.nodes) |->
        [slice.nodes[k] EXCEPT !.size = <<NodeSize(slice, slice.nodes[k].id)>>]]

\* Get positions from last time: if (last) holds for every node the index
\* has, whatever its coordinates.
FromLastTime(attrs, last) ==
    [k \in 1 .. Len(attrs) |->
        IF attrs[k].id \in DOMAIN last
        THEN [attrs[k] EXCEPT !.x = last[attrs[k].id].x, !.y = last[attrs[k].id].y]
        ELSE attrs[k]]

\* if (n.x): a coordinate is truthy when it is a number other than 0.
Truthy(c) == c # Absent /\ c[1] # 0

\* The attributes of the node of id nid.
Attributes(attrs, nid) == attrs[CHOOSE k \in 1 .. Len(attrs) : attrs[k].id = nid]

\* g.forEachNeighbor(nid, ...): the other ends of the edges of nid, each once.
Neighbors(nid) ==
    LET es == data[Current].edges
    IN  {es[k].source : k \in {l \in 1 .. Len(es) : es[l].target = nid}}
        \cup {es[k].target : k \in {l \in 1 .. Len(es) : es[l].source = nid}}

\* The neighbours of nid, nodes of the graph attrs, that pass
\* if (n2.x && n2.y).
PositionedNeighbors(attrs, nid) ==
    {n2 \in Neighbors(nid) \cap {attrs[k].id : k \in 1 .. Len(attrs)} :
        Truthy(Attributes(attrs, n2).x) /\ Truthy(Attributes(attrs, n2).y)}

RECURSIVE SumX(_, _)
\* x += n2.x over the nodes of N
SumX(attrs, N) ==
    IF N = {} THEN 0
    ELSE LET n2 == CHOOSE n \in N : TRUE
         IN  Attributes(attrs, n2).x[1] + SumX(attrs, N \ {n2})

RECURSIVE SumY(_, _)
\* y += n2.y over the nodes of N
SumY(attrs, N) ==
    IF N = {} THEN 0
    ELSE LET n2 == CHOOSE n \in N : TRUE
         IN  Attributes(attrs, n2).y[1] + SumY(attrs, N \ {n2})

\* The position computed for the node nid, reading the graph attrs: the
\* sums of the coordinates of its positioned neighbours (they are not
\* divided by count), or the random draw rnd[nid] when it has none.
SeedPosition(attrs, nid, rnd) ==
    LET N == PositionedNeighbors(attrs, nid)
    IN  IF N = {} THEN [x |-> <<rnd[nid][1]>>, y |-> <<rnd[nid][2]>>]
        ELSE [x |-> <<SumX(attrs, N)>>, y |-> <<SumY(attrs, N)>>]

\* if (!n.x || !n.y)
LacksCoordinate(n) == ~Truthy(n.x) \/ ~Truthy(n.y)

\* attrs with the node of id nid moved to pos.
Moved(attrs, nid, pos) ==
    [k \in 1 .. Len(attrs) |->
        IF attrs[k].id = nid THEN [attrs[k] EXCEPT !.x = pos.x, !.y = pos.y] ELSE attrs[k]]

RECURSIVE SeededInPlace(_, _, _)
\* Seeding that writes each position as soon as it is computed, so that the
\* nodes visited later read it.
SeededInPlace(attrs, order, rnd) ==
    IF order = <<>> THEN attrs
    ELSE LET n == attrs[Head(order)]
         IN  SeededInPlace(IF LacksCoordinate(n)
                           THEN Moved(attrs, n.id, SeedPosition(attrs, n.id, rnd))
                           ELSE attrs,
                           Tail(order), rnd)

RECURSIVE NodesIndex(_, _, _)
\* nodesIndex after g.nodes().forEach has visited the nodes in the given
\* order (positions in attrs): every position is computed from attrs as it
\* was before the loop.
NodesIndex(attrs, order, rnd) ==
    IF order = <<>> THEN <<>>
    ELSE LET n == attrs[order[Len(order)]]
             before == NodesIndex(attrs, SubSeq(order, 1, Len(order) - 1), rnd)
         IN  IF LacksCoordinate(n)
             THEN [nid \in DOMAIN before \cup {n.id} |->
                      IF nid = n.id THEN SeedPosition(attrs, nid, rnd) ELSE before[nid]]
             ELSE before

\* Initial positions, when the nodes are visited in the given order: first
\* nodesIndex is filled, then each of its positions is written.
Seeded(attrs, order, rnd) ==
    LET nodesIndex == NodesIndex(attrs, order, rnd)
    IN  [k \in 1 .. Len(attrs) |->
            IF attrs[k].id \in DOMAIN nodesIndex
            THEN [attrs[k] EXCEPT !.x = nodesIndex[attrs[k].id].x,
                                  !.y = nodesIndex[attrs[k].id].y]
            ELSE attrs[k]]

\* Initial positions of the sample branch: a random position for every node.
Scattered(attrs, rnd) ==
    [k \in 1 .. Len(attrs) |->
        [attrs[k] EXCEPT !.x = <<rnd[attrs[k].id][1]>>, !.y = <<rnd[attrs[k].id][2]>>]]

\* The draws of Math.random for the nodes of attrs.
Draws(attrs) == [{attrs[k].id : k \in 1 .. Len(attrs)} -> Coords \X Coords]

\* g.nodes(): the order the nodes were added in.
NodeOrder(attrs) == [k \in 1 .. Len(attrs) |-> k]

\* What a ForceAtlas2 or overlap removal pass can leave: any position for
\* every node.
PassResults(attrs) ==
    {[k \in 1 .. Len(attrs) |-> [attrs[k] EXCEPT !.x = <<pos[k][1]>>, !.y = <<pos[k][2]>>]] :
        pos \in [1 .. Len(attrs) -> Coords \X Coords]}

\* forceAtlas2.assign throws before it moves a node when a setting is not
\* valid: linLogMode is options.linlog itself, a string when the option is
\* given, and the number of iterations, a multiple of iterationsfactor,
\* has to be positive.
ForceAtlas2Throws == Present(linlog) \/ iterationsfactor <= 0

\* noverlap.assign throws before it moves a node when maxIterations, a
\* multiple of iterationsfactor, is not positive.
NoverlapThrows == iterationsfactor <= 0

LayoutHalt(label, code) ==
    /\ layoutPc' = label
    /\ layoutExitCode' = code
    /\ UNCHANGED <<slicerVars, renderVars, data, sample, linlog, iterationsfactor, sweeps,
                   lastNodesIndex, sliceIndex, g>>

\* A step of renderLayout that leaves the graph as attrs.
LayoutStep(attrs, label) ==
    /\ g' = attrs
    /\ layoutPc' = label
    /\ UNCHANGED <<slicerVars, renderVars, data, sample, linlog, iterationsfactor, sweeps,
                   lastNodesIndex, sliceIndex, layoutExitCode>>

\* The branch taken at if (options.sample): a given option is a non-empty
\* string.
LayoutStart ==
    /\ layoutPc = "start"
    /\ layoutPc' = IF Present(sample) THEN "sample" ELSE "slices"
    /\ sliceIndex' = IF Present(sample) THEN sliceIndex ELSE 1
    /\ UNCHANGED <<slicerVars, renderVars, data, sample, linlog, iterationsfactor, sweeps,
                   lastNodesIndex, g, layoutExitCode>>

\* options.sample < 0 || options.sample > data.slices.length
SampleRejected(s) == s < 0 \/ s > Len(data)

\* Sample a single slice: data.slices[s] is the slice of index s counted
\* from 0, undefined when there is none.  buildNetwork and setNodeSizes.
LayoutSample ==
    /\ layoutPc = "sample"
    /\ IF SampleRejected(sample[1])
       THEN LayoutHalt("exited", ProcessExit)
       ELSE IF sample[1] + 1 \notin 1 .. Len(data)
       THEN \* TypeError in buildNetwork: slice is undefined
            LayoutHalt("crashed", Uncaught)
       ELSE IF BuildNetworkThrows(data[sample[1] + 1])
       THEN LayoutHalt("crashed", Uncaught)
       ELSE LayoutStep(Network(data[sample[1] + 1]), "initialPositions")

\* One turn of data.slices.forEach, up to renderLayout: build the network,
\* size the nodes, take the positions of the previous slice.
LayoutSlice ==
    /\ layoutPc = "slices"
    /\ sliceIndex <= Len(data)
    /\ IF BuildNetworkThrows(data[sliceIndex])
       THEN LayoutHalt("crashed", Uncaught)
       ELSE LayoutStep(FromLastTime(Network(data[sliceIndex]), lastNodesIndex),
                       "initialPositions")

\* renderLayout 1: initial positions
InitialPositions ==
    /\ layoutPc = "initialPositions"
    /\ \E rnd \in Draws(g) :
          LayoutStep(IF Present(sample) THEN Scattered(g, rnd)
                                        ELSE Seeded(g, NodeOrder(g), rnd),
                     "roughSketch")

\* A rough sketch whose error nothing catches: it ends the script.
RoughSketchUncaught ==
    /\ layoutPc = "roughSketch"
    /\ IF ForceAtlas2Throws THEN LayoutHalt("crashed", Uncaught)
       ELSE \E attrs \in PassResults(g) : LayoutStep(attrs, "precisionPass")

\* renderLayout 2: rough sketch.  An error is caught and logged.
RoughSketch ==
    /\ layoutPc = "roughSketch"
    /\ IF ForceAtlas2Throws THEN LayoutStep(g, "precisionPass")
       ELSE \E attrs \in PassResults(g) : LayoutStep(attrs, "precisionPass")

\* renderLayout 3: precision pass
PrecisionPass ==
    /\ layoutPc = "precisionPass"
    /\ IF ForceAtlas2Throws THEN LayoutStep(g, "slowRefine")
       ELSE \E attrs \in PassResults(g) : LayoutStep(attrs, "slowRefine")

\* renderLayout 4: slow refine
SlowRefine ==
    /\ layoutPc = "slowRefine"
    /\ IF ForceAtlas2Throws THEN LayoutStep(g, "preventOverlap")
       ELSE \E attrs \in PassResults(g) : LayoutStep(attrs, "preventOverlap")

\* renderLayout 5: prevent node overlap (preventoverlap is true by default).
\* The three calls of noverlap.assign are in one try block: the error of a
\* call is caught after the block, and logged.
PreventOverlap ==
    /\ layoutPc = "preventOverlap"
    /\ IF NoverlapThrows
       THEN /\ sweeps' = 1
            /\ g' = g
       ELSE /\ sweeps' = 3
            /\ \E attrs \in PassResults(g) : g' = attrs
    /\ layoutPc' = "update"
    /\ UNCHANGED <<slicerVars, renderVars, data, sample, linlog, iterationsfactor,
                   lastNodesIndex, sliceIndex, layoutExitCode>>

\* An index that keeps the positions of the nodes that are not in the graph.
IndexMerged(attrs) ==
    LET ids == {attrs[k].id : k \in 1 .. Len(attrs)}
    IN  [nid \in ids \cup DOMAIN lastNodesIndex |->
            IF nid \in ids
            THEN [x |-> Attributes(attrs, nid).x, y |-> Attributes(attrs, nid).y]
            ELSE lastNodesIndex[nid]]

\* lastNodesIndex after the slice: the position of each node of the graph.
IndexOf(attrs) ==
    [nid \in {attrs[k].id : k \in 1 .. Len(attrs)} |->
        [x |-> Attributes(attrs, nid).x, y |-> Attributes(attrs, nid).y]]

\* After renderLayout.  In the loop over the slices: update the node data
\* of the slice and the index, and go to the next slice.  In the sample
\* branch the nodes of the slice are the attributes the graph has changed;
\* the graph is exported and the script ends.
LayoutUpdate ==
    /\ layoutPc = "update"
    /\ data' = [data EXCEPT ![Current].nodes = g]
    /\ g' = <<>>
    /\ IF Present(sample)
       THEN /\ layoutPc' = "sampled"
            /\ layoutExitCode' = <<0>>
            /\ UNCHANGED <<lastNodesIndex, sliceIndex>>
       ELSE /\ layoutPc' = "slices"
            /\ lastNodesIndex' = IndexOf(g)
            /\ sliceIndex' = sliceIndex + 1
            /\ UNCHANGED layoutExitCode
    /\ UNCHANGED <<slicerVars, renderVars, sample, linlog, iterationsfactor, sweeps>>

\* Save data
LayoutSave ==
    /\ layoutPc = "slices"
    /\ sliceIndex > Len(data)
    /\ LayoutHalt("saved", <<0>>)

LayoutNext ==
    \/ LayoutStart
    \/ LayoutSample
    \/ LayoutSlice
    \/ InitialPositions
    \/ RoughSketch
    \/ PrecisionPass
    \/ SlowRefine
    \/ PreventOverlap
    \/ LayoutUpdate
    \/ LayoutSave

SpecLayout == LayoutInit /\ [][LayoutNext]_vars

SpecSeries == InitSeries /\ [][LayoutNext]_vars

\* Files of two well-formed slices laid out with the linlog option given:
\* the value of the option is the string of the command line.
InitLinlog ==
    /\ sample \in {Absent} \cup {<<s>> : s \in 0 .. MaxSnapshots + 1}
    /\ linlog \in {<<"true">>, <<"false">>}
    /\ iterationsfactor = 10
    /\ \E s1 \in SeriesSlices(LinlogOldNodes), s2 \in SeriesSlices(LinlogNodes) :
          LayoutBegin(<<s1, s2>>)

\* The script runs on: every step of it ends (the passes have a bounded
\* number of iterations) and the next one follows.
SpecLinlog == InitLinlog /\ [][LayoutNext]_vars /\ WF_vars(LayoutNext)

\* Files of two well-formed slices laid out with an iterationsfactor
\* option, negative or positive.
InitOverlap ==
    /\ sample \in {Absent} \cup {<<s>> : s \in 0 .. MaxSnapshots + 1}
    /\ linlog = Absent
    /\ iterationsfactor \in {-1, 1}
    /\ \E s1 \in SeriesSlices(LinlogOldNodes), s2 \in SeriesSlices(LinlogNodes) :
          LayoutBegin(<<s1, s2>>)

SpecOverlap == InitOverlap /\ [][LayoutNext]_vars

\* Files of three well-formed slices: a node of the first can be missing
\* in the second and back in the third.
InitReturning ==
    /\ sample \in {Absent} \cup {<<s>> : s \in 0 .. MaxSnapshots + 1}
    /\ linlog = Absent
    /\ iterationsfactor = 10
    /\ \E s1 \in SeriesSlices(LinlogOldNodes), s2, s3 \in SeriesSlices(LinlogNodes) :
          LayoutBegin(<<s1, s2, s3>>)

SpecReturning == InitReturning /\ [][LayoutNext]_vars

\* ---------------------------------------------------------- render-video
\* render-video (src/render-video.js) draws the frame of one slice.

\* The layers of a frame, in the order ns.render draws them.
LayerNames == {"background", "hillshading", "edges", "nodes", "labels"}

\* settings.draw_* as renderFrame sets them.
DrawSettings ==
    [background |-> TRUE, hillshading |-> FALSE, edges |-> TRUE, nodes |-> TRUE,
     labels |-> TRUE]

\* The state when the script starts.
FrameInit ==
    /\ frameSample \in {Absent} \cup {<<s>> : s \in 0 .. MaxFrames + 1}
    /\ frameSlices \in 0 .. MaxFrames
    /\ faulty \in SUBSET LayerNames
    /\ bgImage = <<>>
    /\ layeredImage = <<>>
    /\ canvas = <<>>
    /\ renderPc = "start"
    /\ renderExitCode = <<>>
    /\ SlicerNotStarted
    /\ LayoutNotStarted
    /\ VoronoiNotStarted
    /\ LabelsNotStarted
    /\ MoreNotStarted

FrameHalt(label, code) ==
    /\ renderPc' = label
    /\ renderExitCode' = code
    /\ UNCHANGED <<slicerVars, layoutVars, voronoiVars, labelVars, moreVars, frameSample, frameSlices, faulty, bgImage,
                   layeredImage, canvas>>

\* if (options.sample): the range check, data.slices[options.sample] (which
\* is undefined for the slice count itself: slice.nodes is a TypeError),
\* then renderFrame up to the layers of ns.render.  Without the option the
\* script renders nothing and writes the slices back.
FrameStart ==
    /\ renderPc = "start"
    /\ IF ~Present(frameSample) THEN FrameHalt("saved", <<0>>)
       ELSE IF frameSample[1] < 0 \/ frameSample[1] > frameSlices
       THEN FrameHalt("exited", ProcessExit)
       ELSE IF frameSample[1] + 1 > frameSlices
       THEN FrameHalt("sliceUndefined", Uncaught)
       ELSE FrameHalt("background", <<>>)

\* ns.drawLayerOnTop(image, ns.draw...Layer(ns.settings)) for the layer
\* drawn at the statement at, when its setting is on.  Nothing catches what
\* the drawing throws: the error leaves ns.render and renderFrame, and
\* ends the script.
DrawLayer(at, layer, onBackground, next) ==
    /\ renderPc = at
    /\ IF ~DrawSettings[layer]
       THEN FrameHalt(next, <<>>)
       ELSE IF layer \in faulty
       THEN FrameHalt("layerThrew", Uncaught)
       ELSE /\ renderPc' = next
            /\ bgImage' = IF onBackground THEN Append(bgImage, layer) ELSE bgImage
            /\ layeredImage' = IF onBackground THEN layeredImage
                                ELSE Append(layeredImage, layer)
            /\ UNCHANGED <<slicerVars, layoutVars, voronoiVars, labelVars, moreVars, frameSample, frameSlices, faulty, canvas,
                           renderExitCode>>

DrawBackground == DrawLayer("background", "background", TRUE, "hillshading")

DrawHillshading == DrawLayer("hillshading", "hillshading", TRUE, "edges")

DrawEdges == DrawLayer("edges", "edges", FALSE, "nodes")

DrawNodes == DrawLayer("nodes", "nodes", FALSE, "labels")

DrawNodeLabels == DrawLayer("labels", "labels", FALSE, "merge")

\* Merge on background, build the final canvas and return it.
MergeOnBackground ==
    /\ renderPc = "merge"
    /\ canvas' = <<[background |-> bgImage, layered |-> layeredImage]>>
    /\ renderPc' = "returned"
    /\ UNCHANGED <<slicerVars, layoutVars, voronoiVars, labelVars, moreVars, frameSample, frameSlices, faulty, bgImage,
                   layeredImage, renderExitCode>>

\* Save: the canvas is written to sample-frame.png.
SaveFrame ==
    /\ renderPc = "returned"
    /\ FrameHalt("done", <<0>>)

FrameNext ==
    \/ FrameStart
    \/ DrawBackground
    \/ DrawHillshading
    \/ DrawEdges
    \/ DrawNodes
    \/ DrawNodeLabels
    \/ MergeOnBackground
    \/ SaveFrame

SpecFrame == FrameInit /\ [][FrameNext]_vars

\* ------------------------------------------------------- ns.getVoronoiData
\* The voronoi map is followed on a window of its pixels, with the nodes
\* whose range reaches the window; coordinates are in pixels, from the
\* first pixel of the window, which lies inside the map.  The other nodes
\* of the graph write nothing in the window.

\* 255 / (options.voronoi_range * ratio): the halo is 255/16 pixels wide
\* (15.16 pixels with the settings of renderFrame), so that dmod * 255 is
\* 16 * (d - nsize).
ShadesPerPixel == 16

\* g.order and positions in g.nodes(), on both sides of the thresholds of
\* the element width of vidPixelMap.
GraphOrders == {2, 254, 255, 256, 65534, 65535, 65536}

Positions == {1, 2, 254, 255, 256, 65534, 65535, 65536}

\* ratio * n.x and ratio * n.y
NodeXs == {0, 8}

NodeYs == {0, 1}

Window == (0 .. WindowWidth) \X (0 .. WindowHeight)

\* A node of ns.g: its position in g.nodes(), its coordinates and size, and
\* its voronoi id, <<>> before it is set.
TrackedNodes(n) ==
    [position : Positions \cap (1 .. n), x : NodeXs, y : NodeYs, size : 0 .. MaxNodeSize,
     vid : {Absent}]

VoronoiInit ==
    /\ gOrder \in GraphOrders
    /\ tracked \in {t \in SeqsUpTo(TrackedNodes(gOrder), MaxTracked) :
                        \A k \in 1 .. Len(t) - 1 : t[k].position < t[k + 1].position}
    /\ vidPixelMap = <<>>
    /\ dPixelMap = <<>>
    /\ voronoiIndex = 0
    /\ voronoiPc = "start"
    /\ SlicerNotStarted
    /\ LayoutNotStarted
    /\ FrameNotStarted
    /\ LabelsNotStarted
    /\ MoreNotStarted

\* An element of one byte whatever the order of the graph.
StoredInByte(v, n) == v % 256

\* The value an element of vidPixelMap keeps of v: the array is a
\* Uint8Array, a Uint16Array or a Uint32Array (an array of node ids has
\* fewer than 2^32 elements).
Stored(v, n) ==
    IF n < 255 THEN v % 256
    ELSE IF n < 65535 THEN v % 65536
    ELSE v

\* Math.floor(Math.sqrt(n))
Isqrt(n) == CHOOSE r \in 0 .. 255 : r * r <= n /\ n < (r + 1) * (r + 1)

\* Math.pow(nx - x, 2) + Math.pow(ny - y, 2)
SquaredDistance(n, px) == (n.x - px[1]) * (n.x - px[1]) + (n.y - px[2]) * (n.y - px[2])

\* The two for loops reach the pixel px, from Math.floor(nx - range) to
\* Math.floor(nx + range) with range = nsize + 255/16, and d < range.
InRange(n, px) ==
    /\ n.x - n.size - 16 <= px[1] /\ px[1] <= n.x + n.size + 15
    /\ n.y - n.size - 16 <= px[2] /\ px[2] <= n.y + n.size + 15
    /\ ShadesPerPixel * ShadesPerPixel * SquaredDistance(n, px)
           < (ShadesPerPixel * n.size + 255) * (ShadesPerPixel * n.size + 255)

\* d <= nsize: "inside" the node
Inside(n, px) == SquaredDistance(n, px) <= n.size * n.size

\* Math.floor(dmod*255)
Shade(n, px) ==
    IF Inside(n, px) THEN 0
    ELSE Isqrt(ShadesPerPixel * ShadesPerPixel * SquaredDistance(n, px))
             - ShadesPerPixel * n.size

\* dmod*255 < q, for the element q of dPixelMap
CloserThan(n, px, q) ==
    IF Inside(n, px) THEN 0 < q
    ELSE ShadesPerPixel * ShadesPerPixel * SquaredDistance(n, px)
             < (q + ShadesPerPixel * n.size) * (q + ShadesPerPixel * n.size)

\* The node n takes the pixel px.
Takes(n, px) ==
    InRange(n, px) /\ (vidPixelMap[px] = 0 \/ CloserThan(n, px, dPixelMap[px]))

VoronoiStep(label) ==
    /\ voronoiPc' = label
    /\ UNCHANGED <<slicerVars, layoutVars, frameVars, labelVars, moreVars, gOrder>>

\* Save the "voronoi id" as a node attribute: the position in nodesIndex,
\* which is g.nodes() behind a null.  Init the two pixel maps.
VoronoiIds ==
    /\ voronoiPc = "start"
    /\ tracked' = [k \in 1 .. Len(tracked) |->
                      [tracked[k] EXCEPT !.vid = <<tracked[k].position>>]]
    /\ vidPixelMap' = [px \in Window |-> 0]
    /\ dPixelMap' = [px \in Window |-> 255]
    /\ voronoiIndex' = 1
    /\ VoronoiStep("nodes")

\* One turn of g.nodes().forEach in "Compute the voronoi using the pixel map".
VoronoiNode ==
    /\ voronoiPc = "nodes"
    /\ voronoiIndex <= Len(tracked)
    /\ LET n == tracked[voronoiIndex]
       IN  /\ vidPixelMap' = [px \in Window |->
                                 IF Takes(n, px) THEN Stored(n.vid[1], gOrder)
                                 ELSE vidPixelMap[px]]
           /\ dPixelMap' = [px \in Window |->
                               IF Takes(n, px) THEN Shade(n, px) ELSE dPixelMap[px]]
    /\ voronoiIndex' = voronoiIndex + 1
    /\ UNCHANGED tracked
    /\ VoronoiStep("nodes")

\* ns._voronoiData is set and returned.
VoronoiReturn ==
    /\ voronoiPc = "nodes"
    /\ voronoiIndex > Len(tracked)
    /\ UNCHANGED <<tracked, vidPixelMap, dPixelMap, voronoiIndex>>
    /\ VoronoiStep("done")

VoronoiNext ==
    \/ VoronoiIds
    \/ VoronoiNode
    \/ VoronoiReturn

SpecVoronoi == VoronoiInit /\ [][VoronoiNext]_vars

\* ------------------------------------------------------ ns.getVisibleLabels
\* The collision bitmap is followed on one row of pixels, 0 .. MaxPixel.

\* settings.label_count (80 in renderFrame)
label_count == 2

\* A node of ns.g: its size, which is also the radius of its disc, its x
\* and half the width of the bounding area of its label
\* (measure.width/2 + lineWidth/2).
LabelNodes == [size : 1 .. MaxRadius, x : 0 .. MaxPixel, halfWidth : 0 .. MaxHalfWidth]

LabelsInit ==
    /\ labelNodes \in SeqsUpTo(LabelNodes, MaxLabelNodes)
    /\ nodesBySize = <<>>
    /\ labelOrder = <<>>
    /\ labelDrawCount = 0
    /\ visibleLabels = <<>>
    /\ bitmap = {}
    /\ labelIndex = 0
    /\ labelPc = "start"
    /\ SlicerNotStarted
    /\ LayoutNotStarted
    /\ FrameNotStarted
    /\ VoronoiNotStarted
    /\ MoreNotStarted

\* The comparison function of nodesBySize.sort says that the node na comes
\* before the node nb (it returns -1).
ComesBefore(na, nb) ==
    IF na.size < nb.size THEN FALSE
    ELSE IF na.size > nb.size THEN TRUE
    ELSE IF na.x < nb.x THEN FALSE
    ELSE na.x > nb.x

RECURSIVE SortedIn(_, _, _)
\* Array.prototype.sort, which is stable: the sorted ids with the id nid put
\* behind the last one that does not come after it.
SortedIn(nodes, sorted, nid) ==
    IF sorted = <<>> THEN <<nid>>
    ELSE LET last == sorted[Len(sorted)]
         IN  IF ComesBefore(nodes[nid], nodes[last])
             THEN Append(SortedIn(nodes, SubSeq(sorted, 1, Len(sorted) - 1), nid), last)
             ELSE Append(sorted, nid)

RECURSIVE Sort(_, _)
\* nodesBySize.sort(...) of the ids 1 .. n in the order of g.nodes()
Sort(nodes, n) == IF n = 0 THEN <<>> ELSE SortedIn(nodes, Sort(nodes, n - 1), n)

\* Array.prototype.reverse
Reverse(seq) == [k \in 1 .. Len(seq) |-> seq[Len(seq) + 1 - k]]

\* ns.getNodesBySize for the graph of the given nodes: sorted, then
\* reversed "because we draw from background to foreground".
NodesBySize(nodes) == Reverse(Sort(nodes, Len(nodes)))

\* ns.getNodesBySize
getNodesBySize == NodesBySize(labelNodes)

\* The pixels of the row within r of x.
Around(x, r) == {px \in 0 .. MaxPixel : x - r <= px /\ px <= x + r}

\* The bounding area of the label of the node n, stroked on ctx2.
BoundingArea(n) == Around(n.x, n.halfWidth)

\* The disc of the node itself (label_collision_include_node): the pixels
\* at less than its radius from its centre.
NodeDisc(n) == Around(n.x, n.size - 1)

\* No pixel counts as set: every label is kept.
CollisionIgnored(n, pixels) == FALSE

\* Test bounding box collision: a pixel of the bounding area of the label
\* is set in both canvases.
Collision(n, pixels) == BoundingArea(n) \cap pixels # {}

LabelsStep(label) ==
    /\ labelPc' = label
    /\ UNCHANGED <<slicerVars, layoutVars, frameVars, voronoiVars, moreVars, labelNodes>>

\* Reverse nodes by size order, paint the bitmap, labelDrawCount.
LabelsStart ==
    /\ labelPc = "start"
    /\ nodesBySize' = getNodesBySize
    /\ labelOrder' = Reverse(getNodesBySize)
    /\ bitmap' = {}
    /\ labelDrawCount' = label_count
    /\ visibleLabels' = <<>>
    /\ labelIndex' = 1
    /\ LabelsStep("labels")

\* One turn of nodesBySize.forEach in "Evaluate labels".
LabelNode ==
    /\ labelPc = "labels"
    /\ labelIndex <= Len(labelOrder)
    /\ LET nid == labelOrder[labelIndex]
           n == labelNodes[nid]
       IN  IF labelDrawCount > 0 /\ ~Collision(n, bitmap)
           THEN /\ bitmap' = bitmap \cup BoundingArea(n) \cup NodeDisc(n)
                /\ labelDrawCount' = labelDrawCount - 1
                /\ visibleLabels' = Append(visibleLabels, nid)
           ELSE UNCHANGED <<bitmap, labelDrawCount, visibleLabels>>
    /\ labelIndex' = labelIndex + 1
    /\ UNCHANGED <<nodesBySize, labelOrder>>
    /\ LabelsStep("labels")

\* ns._visibleLabels is set and returned.
LabelsReturn ==
    /\ labelPc = "labels"
    /\ labelIndex > Len(labelOrder)
    /\ UNCHANGED <<nodesBySize, labelOrder, bitmap, labelDrawCount, visibleLabels, labelIndex>>
    /\ LabelsStep("done")

RECURSIVE Evaluated(_, _)
\* "Evaluate labels" for the graph of the given nodes, after k turns of
\* nodesBySize.forEach: labelDrawCount, the pixels set and visibleLabels.
Evaluated(nodes, k) ==
    IF k = 0 THEN [count |-> label_count, pixels |-> {}, visible |-> <<>>]
    ELSE LET before == Evaluated(nodes, k - 1)
             nid == Reverse(NodesBySize(nodes))[k]
             n == nodes[nid]
         IN  IF before.count > 0 /\ ~Collision(n, before.pixels)
             THEN [count |-> before.count - 1,
                   pixels |-> before.pixels \cup BoundingArea(n) \cup NodeDisc(n),
                   visible |-> Append(before.visible, nid)]
             ELSE before

\* ns.getVisibleLabels for the graph of the given nodes.
getVisibleLabels(nodes) == Evaluated(nodes, Len(nodes)).visible

LabelsNext ==
    \/ LabelsStart
    \/ LabelNode
    \/ LabelsReturn

SpecLabels == LabelsInit /\ [][LabelsNext]_vars

\* ------------------------------------------------------- renderer caches
\* renderFrame is followed over several calls, each for a slice; a value
\* derived from the graph ns.g is named by the structure and the slice
\* the graph was copied from.

\* The renderer of the call before, kept for the next call.
RendererKept == renderer

\* let renderer = newRenderer()
newRenderer == [initialized |-> FALSE, g |-> Absent, cache |-> [st \in Structures |-> Absent]]

\* ns.init: if (ns._initialized) { return }, else ns.g = g.copy()
init(ns, slice) ==
    IF ns.initialized THEN ns ELSE [ns EXCEPT !.initialized = TRUE, !.g = <<slice>>]

\* The structures the computation of st requests: the hillshading is
\* computed from the heatmap, the visible labels from the nodes by size
\* and (through ns.buildLabelFontContext) the node size extent.
Requests(st) ==
    IF st = "hillshadingData" THEN {"heatmapData"}
    ELSE IF st = "visibleLabels" THEN {"nodesBySize", "nodeSizeExtent"}
    ELSE {}

\* The structures computed when st is requested of the namespace ns: the
\* ones among st and those it requests that ns has not kept.
Computed(ns, st) ==
    IF Present(ns.cache[st]) THEN {}
    ELSE {c \in {st} \cup Requests(st) : ~Present(ns.cache[c])}

\* ns after the request of st: what was computed is kept.
Requested(ns, st) ==
    [ns EXCEPT !.cache = [c \in Structures |->
        IF c \in Computed(ns, st) THEN <<[of |-> c, from |-> ns.g[1]]>> ELSE ns.cache[c]]]

CacheInit ==
    /\ CacheNotStarted
    /\ InitNotStarted
    /\ TruncateNotStarted
    /\ EdgeNotStarted
    /\ SlicerNotStarted
    /\ LayoutNotStarted
    /\ FrameNotStarted
    /\ VoronoiNotStarted
    /\ LabelsNotStarted

\* renderFrame(slice) up to ns.init: a new renderer, and the graph built
\* from the slice copied into it.
CallRenderFrame ==
    /\ frameCalls < MaxFrameCalls
    /\ \E slice \in 1 .. MaxFrameCalls :
          /\ rendered' = slice
          /\ renderer' = init(newRenderer, slice)
    /\ frameCalls' = frameCalls + 1
    /\ computations' = [st \in Structures |-> 0]
    /\ returned' = <<>>
    /\ UNCHANGED <<slicerVars, layoutVars, frameVars, voronoiVars, labelVars, initVars,
                   truncateVars, edgeVars>>

\* A layer requests a structure: ns.getVoronoiData(), ns.getHeatmapData(),
\* ns.getHillshadingData(), ns.getNodesBySize(), ns.getNodeSizeExtent() or
\* ns.getVisibleLabels(options).
Request ==
    /\ frameCalls > 0
    /\ \E st \in Structures :
          /\ renderer' = Requested(renderer, st)
          /\ computations' = [c \in Structures |->
                                 IF c \in Computed(renderer, st) THEN computations[c] + 1
                                 ELSE computations[c]]
          /\ returned' = <<[of |-> st, value |-> Requested(renderer, st).cache[st]]>>
    /\ UNCHANGED <<slicerVars, layoutVars, frameVars, voronoiVars, labelVars, initVars,
                   truncateVars, edgeVars, frameCalls, rendered>>

CacheNext ==
    \/ CallRenderFrame
    \/ Request

SpecCache == CacheInit /\ [][CacheNext]_vars

\* ---------------------------------------------------------------- ns.init
\* A number is n / d * sqrt(root): the attributes of a slice are integers,
\* a rescaled one is a fraction and a random coordinate is a multiple of
\* sqrt(g.order).

Integer(v) == [n |-> v, d |-> 1, root |-> 1]

\* settings.image_width, settings.image_height and the margins, in pixels.
dim == [w |-> 16, h |-> 9]

margin == [t |-> 1, r |-> 1, b |-> 1, l |-> 1]

\* The attributes a node of a slice may have.
InputAttributes ==
    [x : {Absent} \cup {<<Integer(v)>> : v \in -MaxInitCoord .. MaxInitCoord},
     y : {Absent} \cup {<<Integer(v)>> : v \in -MaxInitCoord .. MaxInitCoord},
     size : {Absent} \cup {<<Integer(v)>> : v \in 0 .. MaxInitSize},
     color : {Absent, <<"#000">>},
     label : {Absent, <<"label">>},
     vid : {Absent}]

\* g.addNode(node.id, node): the graph holds the node object of the slice.
SliceGraph(n) == [nid \in 1 .. n |-> nid]

\* The graph keeps the attributes objects of the graph it is copied from.
Shared(n, graph) == graph

\* g.copy(): every node has a new attributes object.
copy(n, graph) == [nid \in DOMAIN graph |-> n + graph[nid]]

\* The objects once the attributes of graph `from` are assigned to the
\* objects of graph `to`.
Assigned(objs, from, to) ==
    [a \in Addresses |->
        IF \E nid \in DOMAIN to : to[nid] = a
        THEN objs[from[CHOOSE nid \in DOMAIN to : to[nid] = a]]
        ELSE objs[a]]

\* isNumeric(n) of an attribute: a missing one is not.
isNumeric(attr) == Present(attr)

\* getRandomCoordinates(): the candidates inside the unit disc, multiplied
\* by 5 * Math.sqrt(g.order).
getRandomCoordinates(n) ==
    {<<[n |-> 5 * cx, d |-> RandomSteps, root |-> n],
       [n |-> 5 * cy, d |-> RandomSteps, root |-> n]>> :
        <<cx, cy>> \in {c \in (-RandomSteps .. RandomSteps) \X (-RandomSteps .. RandomSteps) :
                          c[1] * c[1] + c[2] * c[2] <= RandomSteps * RandomSteps}}

LacksCoordinates(attrs) == ~isNumeric(attrs.x) \/ ~isNumeric(attrs.y)

\* The attributes of a node after ns.addMissingVisualizationData, c being
\* the random coordinates drawn for it.
Defaulted(attrs, c) ==
    [x |-> IF LacksCoordinates(attrs) THEN <<c[1]>> ELSE attrs.x,
     y |-> IF LacksCoordinates(attrs) THEN <<c[2]>> ELSE attrs.y,
     size |-> IF isNumeric(attrs.size) THEN attrs.size ELSE <<Integer(1)>>,
     color |-> IF attrs.color = Absent THEN <<"#665">> ELSE attrs.color,
     label |-> IF attrs.label = Absent THEN <<"">> ELSE attrs.label,
     vid |-> attrs.vid]

\* The objects after body(attributes, nid) is run on every node of graph.
ForEachNode(objs, graph, body(_, _)) ==
    [a \in Addresses |->
        IF \E nid \in DOMAIN graph : graph[nid] = a
        THEN body(objs[a], CHOOSE nid \in DOMAIN graph : graph[nid] = a)
        ELSE objs[a]]

coordinateIssues(objs, graph) ==
    Cardinality({nid \in DOMAIN graph : LacksCoordinates(objs[graph[nid]])})

\* if (options.flip_y): n.y = -n.y; settings.flip_x is false.
Flipped(attrs) == [attrs EXCEPT !.y = <<[attrs.y[1] EXCEPT !.n = -attrs.y[1].n]>>]

\* n.size = n.size || 1
Sized(attrs) == IF attrs.size[1].n = 0 THEN [attrs EXCEPT !.size = <<Integer(1)>>] ELSE attrs

RECURSIVE Sum(_, _)
Sum(f, n) == IF n = 0 THEN 0 ELSE f[n] + Sum(f, n - 1)

Max(values) == CHOOSE v \in values : \A w \in values : w <= v

Min(values) == CHOOSE v \in values : \A w \in values : v <= w

Abs(v) == IF v < 0 THEN -v ELSE v

\* The centre along one axis, as a fraction: the coordinates v and the
\* sizes of the nodes 1 .. n give
\* use_barycenter_ratio * barycenter + (1 - use_barycenter_ratio) * geocenter
\* with use_barycenter_ratio .2, over the denominator 10 * wtotal.
Center(v, sizes, n) ==
    LET wtotal == Sum(sizes, n)
        extent == {v[nid] : nid \in 1 .. n}
    IN  [n |-> 2 * Sum([nid \in 1 .. n |-> sizes[nid] * v[nid]], n)
                 + 4 * wtotal * (Min(extent) + Max(extent)),
         d |-> 10 * wtotal]

\* dxmax (or dymax) times the denominator of the centre:
\* the largest Math.abs(n.x - xcenter - n.size).
dmax(v, sizes, n, center) ==
    Max({Abs(center.d * v[nid] - center.n - center.d * sizes[nid]) : nid \in 1 .. n} \cup {0})

\* The rescaling of ns.rescaleGraphToGraphicSpace after the flip, with
\* contain_in_inscribed_circle false: the centre, the ratio
\* Math.min((dim.w-margin.r-margin.l)/(2 * dxmax), (dim.h-margin.t-margin.b)/(2 * dymax)) as
\* the fraction num / den, and the attributes of each node over the
\* denominator den.
Rescaling(objs, graph) ==
    LET n == Cardinality(DOMAIN graph)
        xs == [nid \in 1 .. n |-> objs[graph[nid]].x[1].n]
        ys == [nid \in 1 .. n |-> objs[graph[nid]].y[1].n]
        sizes == [nid \in 1 .. n |-> objs[graph[nid]].size[1].n]
        xcenter == Center(xs, sizes, n)
        ycenter == Center(ys, sizes, n)
        dxmax == dmax(xs, sizes, n, xcenter)
        dymax == dmax(ys, sizes, n, ycenter)
        width == dim.w - margin.r - margin.l
        height == dim.h - margin.t - margin.b
        byWidth == width * dymax <= height * dxmax
        extent == IF byWidth THEN width ELSE height
        den == 2 * (IF byWidth THEN dxmax ELSE dymax)
    IN  [den |-> den,
         x |-> [nid \in 1 .. n |->
                  den * margin.l + (den \div 2) * width
                    + (xcenter.d * xs[nid] - xcenter.n) * extent],
         y |-> [nid \in 1 .. n |->
                  den * margin.t + (den \div 2) * height
                    + (ycenter.d * ys[nid] - ycenter.n) * extent],
         size |-> [nid \in 1 .. n |-> sizes[nid] * extent * xcenter.d]]

\* The objects after the "Resize" loop.
Resized(objs, graph) ==
    LET to == Rescaling(objs, graph)
        resize(attrs, nid) ==
            [attrs EXCEPT !.x = <<[n |-> to.x[nid], d |-> to.den, root |-> 1]>>,
                          !.y = <<[n |-> to.y[nid], d |-> to.den, root |-> 1]>>,
                          !.size = <<[n |-> to.size[nid], d |-> to.den, root |-> 1]>>]
    IN  ForEachNode(objs, graph, resize)

\* ns.rescaleGraphToGraphicSpace(ns.settings)
rescaleGraphToGraphicSpace(objs, graph) ==
    LET flip(attrs, nid) == Sized(Flipped(attrs))
    IN  Resized(ForEachNode(objs, graph, flip), graph)

InitInit ==
    /\ gOrd \in 1 .. MaxInitNodes
    /\ \E nodes \in [1 .. gOrd -> InputAttributes] :
          objects = [a \in Addresses |-> IF a <= gOrd THEN nodes[a] ELSE NoAttributes]
    /\ given = objects
    /\ nsG = Absent
    /\ initPc = "notStarted"
    /\ CacheNotStarted
    /\ TruncateNotStarted
    /\ EdgeNotStarted
    /\ SlicerNotStarted
    /\ LayoutNotStarted
    /\ FrameNotStarted
    /\ VoronoiNotStarted
    /\ LabelsNotStarted

\* renderFrame(slice) up to the end of ns.init: the graph is built on the
\* nodes of the slice and copied, the missing attributes are added and,
\* unless alert (which Node.js does not define) is called, the graph is
\* rescaled.
CallInit ==
    /\ initPc = "notStarted"
    /\ gOrd > 0
    /\ LET copied == copy(gOrd, SliceGraph(gOrd))
           assigned == Assigned(objects, SliceGraph(gOrd), copied)
       IN  /\ nsG' = <<copied>>
           /\ \E c \in [1 .. gOrd -> getRandomCoordinates(gOrd)] :
                LET addMissing(attrs, nid) == Defaulted(attrs, c[nid])
                    added == ForEachNode(assigned, copied, addMissing)
                IN  IF coordinateIssues(assigned, copied) > 0
                    THEN /\ objects' = added
                         /\ initPc' = "uncaught"
                    ELSE /\ objects' = rescaleGraphToGraphicSpace(added, copied)
                         /\ initPc' = "initialized"
    /\ UNCHANGED <<slicerVars, layoutVars, frameVars, voronoiVars, labelVars, cacheVars,
                   truncateVars, edgeVars,
                   gOrd, given>>

\* ns.getVoronoiData(), requested by ns.drawEdgesLayer: n.vid = vid
AssignVids ==
    /\ initPc = "initialized"
    /\ LET assign(attrs, nid) == [attrs EXCEPT !.vid = <<nid>>]
       IN  objects' = ForEachNode(objects, nsG[1], assign)
    /\ initPc' = "vids"
    /\ UNCHANGED <<slicerVars, layoutVars, frameVars, voronoiVars, labelVars, cacheVars,
                   truncateVars, edgeVars,
                   gOrd, nsG, given>>

\* renderer.render(g, settings) returns the canvas.
InitReturn ==
    /\ initPc = "vids"
    /\ initPc' = "returned"
    /\ UNCHANGED <<slicerVars, layoutVars, frameVars, voronoiVars, labelVars, cacheVars,
                   truncateVars, edgeVars,
                   gOrd, objects, nsG, given>>

InitNext ==
    \/ CallInit
    \/ AssignVids
    \/ InitReturn

SpecInit == InitInit /\ [][InitNext]_vars

\* -------------------------------------------------- ns.truncateWithEllipsis
\* A string is the sequence of its characters.

Characters == {"a", "b"}

\* The character U+2026.
Ellipsis == "U+2026"

\* string.substr(0, length): the first characters of the string, all of it
\* when it is not longer, none when length is not positive.
substr(string, length) ==
    SubSeq(string, 1, IF length < 0 THEN 0
                      ELSE IF length < Len(string) THEN length ELSE Len(string))

\* if (n && n<Infinity) return string.substr(0,n-1)+(string.length>n?'\u2026':'');
\* return string
truncateWithEllipsis(string, n) ==
    IF n # 0
    THEN substr(string, n - 1) \o (IF Len(string) > n THEN <<Ellipsis>> ELSE <<>>)
    ELSE string

TruncateInit ==
    /\ labelString \in SeqsUpTo(Characters, MaxLabelLength)
    /\ maxLength \in 0 .. MaxMaxLength
    /\ truncated = Absent
    /\ CacheNotStarted
    /\ InitNotStarted
    /\ EdgeNotStarted
    /\ SlicerNotStarted
    /\ LayoutNotStarted
    /\ FrameNotStarted
    /\ VoronoiNotStarted
    /\ LabelsNotStarted

\* ns.truncateWithEllipsis(string, n)
Truncate ==
    /\ truncated = Absent
    /\ truncated' = <<truncateWithEllipsis(labelString, maxLength)>>
    /\ UNCHANGED <<slicerVars, layoutVars, frameVars, voronoiVars, labelVars, cacheVars,
                   initVars, edgeVars, labelString, maxLength>>

TruncateNext == Truncate

SpecTruncate == TruncateInit /\ [][TruncateNext]_vars

\* -------------------------------------------------------- ns.drawEdgesLayer
\* One edge is drawn with the settings of renderFrame: edge_curved false,
\* edge_path_jitter 0 and tf 1.  The positions are whole pixels.  A point of
\* the path is <<x, y>>; its third number in the code, the opacity, changes
\* neither the points nor the segments stroked.

\* ns.mm_to_px(options.edge_path_segment_length), in pixels.
iPixStep == 2

\* The square of d, the distance between the ends.
SquaredLength(s, t) == (s[1] - t[1]) * (s[1] - t[1]) + (s[2] - t[2]) * (s[2] - t[2])

\* Math.ceil(d/iPixStep): the least k with k * iPixStep >= d.
segCount(s, t) ==
    CHOOSE k \in 0 .. SquaredLength(s, t) :
        /\ k * k * iPixStep * iPixStep >= SquaredLength(s, t)
        /\ \A l \in 0 .. k - 1 : l * l * iPixStep * iPixStep < SquaredLength(s, t)

\* The integer an Int32Array keeps of from + by * k * iPixStep / d, which is
\* not negative: the fraction is cut off.
Along(from, by, k, d2) ==
    LET a == by * k * iPixStep
    IN  IF a >= 0 THEN from + Isqrt((a * a) \div d2)
        ELSE from - (CHOOSE q \in 0 .. -a : /\ q * q * d2 >= a * a
                                            /\ \A r \in 0 .. q - 1 : r * r * d2 < a * a)

\* The point the loop for (i=0; i<1; i+=iPixStep/d) writes at its turn k,
\* where i is k * iPixStep / d: x = (1-i)*n_s.x + i*n_t.x, and y likewise.
LoopPoint(s, t, k) ==
    IF k = 0 THEN s
    ELSE <<Along(s[1], t[1] - s[1], k, SquaredLength(s, t)),
           Along(s[2], t[2] - s[2], k, SquaredLength(s, t))>>

\* "Build path": an array of segCount points that the loop fills, a write
\* past its end being lost, and whose last point is then set to the target.
BuiltPath(s, t) ==
    [k \in 1 .. segCount(s, t) |-> IF k = segCount(s, t) THEN t ELSE LoopPoint(s, t, k - 1)]

\* "Draw path": a segment is stroked to every point but the first, when
\* if (lastx) passes: the x of the point before is not 0.
RECURSIVE Stroked(_, _)
Stroked(points, k) ==
    IF k < 2 THEN <<>>
    ELSE IF points[k - 1][1] # 0
    THEN Append(Stroked(points, k - 1), <<points[k - 1], points[k]>>)
    ELSE Stroked(points, k - 1)

EdgeInit ==
    /\ n_s \in (0 .. MaxEdgeCoord) \X (0 .. MaxEdgeCoord)
    /\ n_t \in (0 .. MaxEdgeCoord) \X (0 .. MaxEdgeCoord)
    /\ path = <<>>
    /\ strokes = <<>>
    /\ edgePc = "build"
    /\ CacheNotStarted
    /\ InitNotStarted
    /\ TruncateNotStarted
    /\ SlicerNotStarted
    /\ LayoutNotStarted
    /\ FrameNotStarted
    /\ VoronoiNotStarted
    /\ LabelsNotStarted

\* The edge in the forEach of ns.drawEdgesLayer: build path
BuildPath ==
    /\ edgePc = "build"
    /\ path' = BuiltPath(n_s, n_t)
    /\ edgePc' = "draw"
    /\ UNCHANGED <<slicerVars, layoutVars, frameVars, voronoiVars, labelVars, cacheVars,
                   initVars, truncateVars, n_s, n_t, strokes>>

\* The edge in the forEach of ns.drawEdgesLayer: draw path
DrawPath ==
    /\ edgePc = "draw"
    /\ strokes' = Stroked(path, Len(path))
    /\ edgePc' = "drawn"
    /\ UNCHANGED <<slicerVars, layoutVars, frameVars, voronoiVars, labelVars, cacheVars,
                   initVars, truncateVars, n_s, n_t, path>>

EdgeNext ==
    \/ BuildPath
    \/ DrawPath

SpecEdge == EdgeInit /\ [][EdgeNext]_vars

\* ------------------------------------------------------------ properties
\* The script has left the slice loop.
Sliced == pc \in {"fillSlices", "done"}

\* The node of id nid is in the node list of the slice.
InSlice(nid, slice) == \E p \in 1 .. Len(slice.nodes) : slice.nodes[p] = nid

\* The tenths (or milliseconds) a number is nearest to: slice bounds are
\* compared with the bounds the claim gives up to the rounding of the sums.
Nominal(x) == x.v

\* C1: the slices pushed so far are S_k = [dateMin + k*windowStep,
\* dateMin + k*windowStep + windowRange] for k = 0, 1, ... in this order, none
\* ends after dateMax, and once the loop has ended every k whose slice ends
\* at or before dateMax has been pushed (the starts do not decrease with k, so
\* it is enough that the first k not pushed has no such slice).
SliceGeneration ==
    pc \in {"buildSlices", "fillSlices", "done"} =>
        /\ dateMin.inf # 0 => slices = <<>>
        /\ \A k \in 1 .. Len(slices) :
              /\ dateMin.inf = 0 /\ dateMax.inf = 0
              /\ Nominal(slices[k].start) = Nominal(dateMin) + (k - 1) * Nominal(windowStep)
              /\ Nominal(slices[k].end) = Nominal(slices[k].start) + Nominal(windowRange)
              /\ Leq(slices[k].end, dateMax)
        /\ \A k \in 1 .. Len(slices) - 1 :
              Nominal(slices[k + 1].start) = Nominal(slices[k].start) + Nominal(windowStep)
        /\ Sliced /\ dateMin.inf = 0 =>
              /\ Nominal(windowStep) >= 0
              /\ \A k \in 0 .. Len(slices) :
                    Nominal(dateMin) + k * Nominal(windowStep) + Nominal(windowRange)
                        <= Nominal(dateMax) => k < Len(slices)

\* C2: the stride is the step option times the unit ratio when the option is
\* given, and the step default otherwise, whatever the range option.
StepFromStepOption ==
    pc \in {"findDates", "buildSlices", "fillSlices", "done"} =>
        windowStep = Scaled(IF Present(options.step) THEN Number(options.step[1])
                                                     ELSE windowStepDefault,
                            windowUnitRatio)

\* The element's own time value qualifies for the slice.
OwnQualifies(domnode, slice) == overlapDomnodeSlice(domnode, slice)

\* C4: a node is in a slice as soon as its own time value or one of its
\* spells qualifies for the slice.
MembershipIsAny ==
    pc = "done" =>
        \A k \in 1 .. Len(slices), nid \in 1 .. Len(nodeDomnodes) :
            OwnQualifies(nodeDomnodes[nid], slices[k]) \/ SpellOverlaps(nodeDomnodes[nid], slices[k])
                => InSlice(nid, slices[k])

\* An element carries an interval when it has a start or an end.
HasInterval(domnode) == Present(domnode.start) \/ Present(domnode.end)

\* NOT(endDate < slice.start OR slice.end < startDate), a missing start
\* being minus infinity and a missing end plus infinity.
Overlaps(domnode, slice) ==
    /\ Present(domnode.end) => ~Lt(timeParser(domnode.end[1]), slice.start)
    /\ Present(domnode.start) => ~Lt(slice.end, timeParser(domnode.start[1]))

\* C5: in interval representation a node with an interval of its own is in
\* a slice exactly when that interval overlaps it; a node without one is in
\* a slice exactly when the interval of one of its spells overlaps it; so a
\* node with neither an interval nor a spell is in no slice.
IntervalOverlap ==
    pc = "done" /\ timerepresentation = "interval" =>
        \A k \in 1 .. Len(slices), nid \in 1 .. Len(nodeDomnodes) :
            LET d == nodeDomnodes[nid]
            IN  InSlice(nid, slices[k]) <=>
                    IF HasInterval(d)
                    THEN Overlaps(d, slices[k])
                    ELSE \E j \in 1 .. Len(d.spells) :
                            HasInterval(d.spells[j]) /\ Overlaps(d.spells[j], slices[k])

\* C5 witness: a node whose interval has no start is in one slice and not
\* in another, and a node whose interval is that of a spell without end
\* likewise.
IntervalOverlapWitness ==
    /\ pc = "done" /\ timerepresentation = "interval"
    /\ \E nid \in 1 .. Len(nodeDomnodes), k1, k2 \in 1 .. Len(slices) :
          /\ ~Present(nodeDomnodes[nid].start) /\ Present(nodeDomnodes[nid].end)
          /\ InSlice(nid, slices[k1]) /\ ~InSlice(nid, slices[k2])
    /\ \E nid \in 1 .. Len(nodeDomnodes), k1, k2 \in 1 .. Len(slices) :
          /\ ~HasInterval(nodeDomnodes[nid]) /\ Len(nodeDomnodes[nid].spells) = 1
          /\ ~Present(nodeDomnodes[nid].spells[1].end)
          /\ InSlice(nid, slices[k1]) /\ ~InSlice(nid, slices[k2])

\* C6: in timestamp representation a node whose only time value is its
\* timestamp t is in a slice exactly when slice.start <= t < slice.end.
TimestampHalfOpen ==
    pc = "done" /\ timerepresentation = "timestamp" =>
        \A k \in 1 .. Len(slices), nid \in 1 .. Len(nodeDomnodes) :
            LET d == nodeDomnodes[nid]
            IN  Present(d.timestamp) /\ d.spells = <<>> =>
                    (InSlice(nid, slices[k]) <=>
                        /\ Leq(slices[k].start, timeParser(d.timestamp[1]))
                        /\ Lt(timeParser(d.timestamp[1]), slices[k].end))

\* C6 witness: a timestamp equal to the end of a slice is left out of it
\* and a timestamp equal to the start of a slice is in it.
TimestampHalfOpenWitness ==
    /\ pc = "done" /\ timerepresentation = "timestamp"
    /\ \E nid \in 1 .. Len(nodeDomnodes), k \in 1 .. Len(slices) :
          /\ Present(nodeDomnodes[nid].timestamp) /\ nodeDomnodes[nid].spells = <<>>
          /\ timeParser(nodeDomnodes[nid].timestamp[1]) = slices[k].end
          /\ ~InSlice(nid, slices[k])
    /\ \E nid \in 1 .. Len(nodeDomnodes), k \in 1 .. Len(slices) :
          /\ Present(nodeDomnodes[nid].timestamp) /\ nodeDomnodes[nid].spells = <<>>
          /\ timeParser(nodeDomnodes[nid].timestamp[1]) = slices[k].start
          /\ InSlice(nid, slices[k])

\* C7: an edge whose own time value or one of whose spells qualifies for a
\* slice, and whose two endpoints are in the slice, is in the edge list of
\* the slice.
ActiveEdgesEmitted ==
    pc = "done" =>
        \A k \in 1 .. Len(slices), eid \in 1 .. Len(edgeDomnodes) :
            LET e == edgeDomnodes[eid]
            IN  /\ OwnQualifies(e, slices[k]) \/ SpellOverlaps(e, slices[k])
                /\ InSlice(e.source, slices[k])
                /\ InSlice(e.target, slices[k])
                => \E p \in 1 .. Len(slices[k].edges) :
                      /\ slices[k].edges[p].source = e.source
                      /\ slices[k].edges[p].target = e.target

\* Input validation fails: the mode, the time format or the time
\* representation is not supported.
ValidationFails ==
    \/ mode # "dynamic"
    \/ timeformat \notin {"date", "dateTime", "integer", "double", ""}
    \/ timerepresentation \notin {"interval", "timestamp", ""}

\* C8: a process that ends after failed validation ends with a nonzero
\* exit code, and the code 0 is that of a run that reached its end.
ExitCodes ==
    /\ exitCode # <<>> /\ ValidationFails => exitCode[1] # 0
    /\ exitCode = <<0>> => pc = "done"

\* The slices the interval representation gives for the document: the dates
\* are the starts and ends of the nodes and their spells.
IntervalDates ==
    UNION {Values(nodeDomnodes[k].start) \cup Values(nodeDomnodes[k].end)
           \cup UNION {Values(nodeDomnodes[k].spells[j].start)
                       \cup Values(nodeDomnodes[k].spells[j].end) :
                          j \in 1 .. Len(nodeDomnodes[k].spells)} :
              k \in 1 .. Len(nodeDomnodes)}

RECURSIVE LoopCount(_, _, _)
\* The slices the slice loop pushes from i = from on, after the first n.
LoopCount(from, hi, n) ==
    IF n < MaxSlices /\ Leq(from, Minus(hi, windowRange))
    THEN LoopCount(Plus(from, windowStep), hi, n + 1)
    ELSE n

IntervalSliceCount ==
    IF IntervalDates = {} THEN 0
    ELSE LET lo == CHOOSE d \in IntervalDates : \A e \in IntervalDates : d <= e
             hi == CHOOSE d \in IntervalDates : \A e \in IntervalDates : e <= d
         IN  LoopCount(timeParser(lo), timeParser(hi), 0)

\* C9: with an empty time representation (and a supported mode and time
\* format) the script passes validation, runs
\* to its end and leaves as many slices as the interval representation
\* does, each holding the nodes the interval rule puts in it.
EmptyRepresentationIsInterval ==
    /\ mode = "dynamic"
    /\ timeformat \in {"date", "dateTime", "integer", "double", ""}
    /\ timerepresentation = ""
    =>
        /\ pc \notin {"exited", "crashed"}
        /\ pc = "done" =>
              /\ Len(slices) = IntervalSliceCount
              /\ \A k \in 1 .. Len(slices), nid \in 1 .. Len(nodeDomnodes) :
                    (HasInterval(nodeDomnodes[nid]) /\ Overlaps(nodeDomnodes[nid], slices[k]))
                        => InSlice(nid, slices[k])

\* C10: with the range option 0 and dateMin <= dateMax no slice is ever
\* pushed, and the slice loop ends.
RangeZeroNoSlices ==
    /\ Present(options.range) /\ options.range[1] = 0
    /\ pc \in {"buildSlices", "fillSlices", "done"}
    /\ Leq(dateMin, dateMax)
    => slices = <<>> /\ ~LoopCondition

\* The slices whose node list the layout has rewritten.
Rewritten ==
    IF Present(sample) THEN (IF layoutPc = "sampled" THEN {sample[1] + 1} ELSE {})
    ELSE 1 .. sliceIndex - 1

Difference(a, b) == [inf |-> 0, v |-> a.v - b.v, d |-> a.d - b.d]

\* step > dateMax - dateMin - range, with range > 0 and step > 0, on the
\* window the script computed.
StepBeyondRoom ==
    /\ dateMin.inf = 0 /\ dateMax.inf = 0
    /\ Lt(Millis(0), windowRange) /\ Lt(Millis(0), windowStep)
    /\ Lt(Difference(Difference(dateMax, dateMin), windowRange), windowStep)

\* C11: once the slice loop has ended with a stride greater than
\* dateMax - dateMin - range, there is no slice when the range is greater
\* than dateMax - dateMin and exactly one otherwise.
AtMostOneSlice ==
    Sliced /\ StepBeyondRoom =>
        Len(slices) = IF Lt(Difference(dateMax, dateMin), windowRange) THEN 0 ELSE 1

\* C11 witness: a finished run over distinct dates whose single slice is all
\* the stride leaves room for.
AtMostOneSliceWitness ==
    pc = "done" /\ StepBeyondRoom /\ Lt(dateMin, dateMax) /\ Len(slices) = 1

\* The single-node interval scenario: one node with the interval [0, 10],
\* time format integer, range 10 and step 5, run to its end.
ScenarioDone ==
    /\ pc = "done"
    /\ timeformat = "integer" /\ timerepresentation = "interval"
    /\ options = [range |-> <<10>>, step |-> <<5>>]
    /\ Len(nodeDomnodes) = 1
    /\ nodeDomnodes[1].start = <<0>> /\ nodeDomnodes[1].end = <<10>>

\* The slice [from, to] holding the nodes ns.
SliceOf(from, to, ns) == [start |-> Whole(from), end |-> Whole(to), nodes |-> ns, edges |-> <<>>]

\* C12 as stated: the scenario gives the two slices [0,10] and [5,15], the
\* node in both.
ScenarioTwoSlices ==
    ScenarioDone => slices = <<SliceOf(0, 10, <<1>>), SliceOf(5, 15, <<1>>)>>

\* C12: the scenario gives the single slice [0,10], which holds the node
\* (the window [5,15] ends after dateMax = 10).
ScenarioOneSlice ==
    ScenarioDone => slices = <<SliceOf(0, 10, <<1>>)>>

\* C12 witness: the scenario has run to its end.
ScenarioWitness == ScenarioDone /\ exitCode = <<0>> /\ dateMax = Whole(10)

\* The graph of a slice of the loop over the slices is about to enter the
\* first ForceAtlas2 pass.
EntersFirstPass == layoutPc = "roughSketch" /\ ~Present(sample)

\* The position of the node n is the one recorded for it at the end of the
\* layout of the previous slice.
KeepsRecorded(n) == n.x = lastNodesIndex[n.id].x /\ n.y = lastNodesIndex[n.id].y

\* C13: every node of the slice that the previous slice had enters the first
\* ForceAtlas2 pass with the position recorded for it at the end of the
\* layout of the previous slice, whatever its coordinates (0 included).
PositionsPersist ==
    EntersFirstPass =>
        \A k \in 1 .. Len(g) : g[k].id \in DOMAIN lastNodesIndex => KeepsRecorded(g[k])

\* The neighbours of nid that have a position recorded from the previous slice.
RecordedNeighbors(nid) == Neighbors(nid) \cap DOMAIN lastNodesIndex

RECURSIVE RecordedSum(_, _)
\* The sum of the recorded coordinate (1 for x, 2 for y) of the nodes of N.
RecordedSum(N, axis) ==
    IF N = {} THEN 0
    ELSE LET n2 == CHOOSE n \in N : TRUE
             c == IF axis = 1 THEN lastNodesIndex[n2].x ELSE lastNodesIndex[n2].y
         IN  c[1] + RecordedSum(N \ {n2}, axis)

\* C14: a node without inherited coordinates that has c >= 1 neighbours
\* with positions enters the first pass at the arithmetic mean of these
\* positions: c times its x is the sum of their x, and the same for y.
SeedIsMean ==
    EntersFirstPass =>
        \A k \in 1 .. Len(g) :
            LET N == RecordedNeighbors(g[k].id)
                c == Cardinality(N)
            IN  g[k].id \notin DOMAIN lastNodesIndex /\ c >= 1 =>
                    /\ c * g[k].x[1] = RecordedSum(N, 1)
                    /\ c * g[k].y[1] = RecordedSum(N, 2)

\* The orders the n nodes of a graph can be visited in.
Orders(n) == {o \in [1 .. n -> 1 .. n] : \A a, b \in 1 .. n : o[a] = o[b] => a = b}

\* The graph of a slice of the loop over the slices is about to be seeded.
BeforeSeeding == layoutPc = "initialPositions" /\ ~Present(sample)

\* The node n is new in the slice and has a neighbour with a position.
NewBesidePositioned(n) ==
    n.id \notin DOMAIN lastNodesIndex /\ PositionedNeighbors(g, n.id) # {}

\* C15: whatever the order the nodes are visited in, a new node with at
\* least one positioned neighbour gets the seed position it gets in the
\* order of the node list: the seed does not depend on the seed computed
\* for another node of the same slice.
SeedingOrderIndependent ==
    BeforeSeeding =>
        \A o \in Orders(Len(g)), rnd \in Draws(g) :
            \A k \in 1 .. Len(g) :
                NewBesidePositioned(g[k]) =>
                    Seeded(g, o, rnd)[k] = Seeded(g, NodeOrder(g), rnd)[k]

\* A new node with a positioned neighbour is about to be seeded next to
\* another new node, which is its neighbour too.
SeedingOrderWitness ==
    /\ BeforeSeeding
    /\ \E k, l \in 1 .. Len(g) :
          /\ k # l
          /\ NewBesidePositioned(g[k])
          /\ g[l].id \notin DOMAIN lastNodesIndex
          /\ g[l].id \in Neighbors(g[k].id)

\* The loop over the slices is at a ForceAtlas2 pass, which throws.
PassThrows ==
    /\ ~Present(sample)
    /\ layoutPc \in {"roughSketch", "precisionPass", "slowRefine"}
    /\ ForceAtlas2Throws

\* The node list of every slice has been rewritten with a size and a
\* position for each node, the index holds the positions of the last slice
\* and the output file is written.
LayoutCompleted ==
    /\ layoutPc = "saved" /\ layoutExitCode = <<0>>
    /\ sliceIndex = Len(data) + 1
    /\ \A s \in 1 .. Len(data) : \A k \in 1 .. Len(data[s].nodes) :
          LET n == data[s].nodes[k]
          IN  Present(n.x) /\ Present(n.y) /\ Present(n.size)
    /\ lastNodesIndex = IndexOf(data[Len(data)].nodes)

\* C16: when a ForceAtlas2 pass of a slice throws, the layout goes on: the
\* later passes run, the node list of the slice and the index are updated,
\* the later slices are laid out and the output file is written.
LayoutFailureIsolated == PassThrows ~> LayoutCompleted

\* The output is written after the passes of two slices with nodes threw.
LayoutFailureWitness ==
    /\ LayoutCompleted /\ ForceAtlas2Throws /\ ~Present(sample)
    /\ \A s \in 1 .. Len(data) : data[s].nodes # <<>>

\* The layers render draws when none throws.
EnabledLayers == {l \in LayerNames : DrawSettings[l]}

\* The layers composited in the canvas c.
Composited(c) ==
    {c.background[k] : k \in 1 .. Len(c.background)}
        \cup {c.layered[k] : k \in 1 .. Len(c.layered)}

\* C17: the drawing of a layer that throws does not end the rendering:
\* render returns a frame, composited from the enabled layers but the ones
\* that threw.
RenderFailureIsolated ==
    /\ renderPc # "layerThrew"
    /\ renderPc \in {"returned", "done"} =>
          Composited(canvas[1]) = EnabledLayers \ faulty

\* The nodes within whose range the pixel px lies.
Claimants(px) == {k \in 1 .. Len(tracked) : InRange(tracked[k], px)}

\* C18: after the voronoi pass the voronoi ids are the positions of the
\* nodes in g.nodes(), from 1 to g.order and all different, and every
\* pixel holds 0, when no node claims it, or the voronoi id of exactly one
\* node, one that claims it: no id is cut to the width of an element.
VoronoiIdsKept ==
    voronoiPc = "done" =>
        /\ \A k \in 1 .. Len(tracked) :
              /\ tracked[k].vid = <<tracked[k].position>>
              /\ tracked[k].vid[1] \in 1 .. gOrder
        /\ \A k, l \in 1 .. Len(tracked) : tracked[k].vid = tracked[l].vid => k = l
        /\ \A px \in Window :
              IF Claimants(px) = {} THEN vidPixelMap[px] = 0
              ELSE Cardinality({k \in Claimants(px) : tracked[k].vid[1] = vidPixelMap[px]}) = 1

\* A pixel is owned by a node whose voronoi id needs more than one byte,
\* and another by one whose id needs more than two.
VoronoiIdsWitness ==
    /\ voronoiPc = "done"
    /\ \E px \in Window : vidPixelMap[px] > 255
    /\ gOrder > 65535
    /\ \E px \in Window : vidPixelMap[px] = gOrder

\* Math.sqrt(a) < Math.sqrt(b) + c, for integers a, b >= 0 and c.
RootLess(a, b, c) ==
    IF c = 0 THEN a < b
    ELSE IF c > 0
    THEN LET m == a - b - c * c IN m < 0 \/ m * m < 4 * c * c * b
    ELSE LET m == b - a - c * c IN m > 0 /\ 4 * c * c * a < m * m

\* The modified distance of the node a at the pixel px is less than that of
\* the node b: the modified distance is 0 inside the node and
\* (d - nsize) / halo outside.
StrictlyCloser(a, b, px) ==
    IF Inside(b, px) THEN FALSE
    ELSE IF Inside(a, px) THEN TRUE
    ELSE RootLess(SquaredDistance(a, px), SquaredDistance(b, px), a.size - b.size)

\* The claimant of px with the smallest modified distance, the first in the
\* order of g.nodes() among those with the same.
FirstClosest(px) ==
    CHOOSE k \in Claimants(px) :
        \A l \in Claimants(px) :
            /\ l < k => StrictlyCloser(tracked[k], tracked[l], px)
            /\ l > k => ~StrictlyCloser(tracked[l], tracked[k], px)

\* C19: every pixel that nodes claim is owned by the claimant with the
\* smallest modified distance at the pixel, the first in the order of
\* g.nodes() among equals, and the distance recorded is the one of the owner.
VoronoiOwnerIsClosest ==
    voronoiPc = "done" =>
        \A px \in Window :
            Claimants(px) # {} =>
                /\ vidPixelMap[px] = tracked[FirstClosest(px)].vid[1]
                /\ dPixelMap[px] = Shade(tracked[FirstClosest(px)], px)

\* The ids of the labels kept.
Kept == {visibleLabels[k] : k \in 1 .. Len(visibleLabels)}

\* The turns before the turn j that kept a label.
KeptBefore(j) == {t \in 1 .. j - 1 : labelOrder[t] \in Kept}

\* The pixels stamped by the turns before the turn j: the bounding area of
\* each label kept, with the disc of its node.
StampedBefore(j) ==
    UNION {BoundingArea(labelNodes[labelOrder[t]]) \cup NodeDisc(labelNodes[labelOrder[t]]) :
              t \in KeptBefore(j)}

\* C20: the nodes are examined by decreasing size; the label of a node is
\* kept if and only if fewer than label_count labels were kept before it
\* and no pixel of its bounding area was stamped by then; the bitmap holds
\* the areas of the labels kept, and at most label_count labels are kept.
GreedyLabels ==
    labelPc \in {"labels", "done"} =>
        /\ \A t \in 1 .. Len(labelOrder) - 1 :
              labelNodes[labelOrder[t]].size >= labelNodes[labelOrder[t + 1]].size
        /\ \A t \in 1 .. labelIndex - 1 :
              labelOrder[t] \in Kept <=>
                  /\ Cardinality(KeptBefore(t)) < label_count
                  /\ BoundingArea(labelNodes[labelOrder[t]]) \cap StampedBefore(t) = {}
        /\ \A t \in labelIndex .. Len(labelOrder) : labelOrder[t] \notin Kept
        /\ bitmap = StampedBefore(labelIndex)
        /\ Len(visibleLabels) <= label_count
        /\ Cardinality(Kept) = Len(visibleLabels)

\* Three labels were examined: one was dropped for a collision and
\* label_count were kept.
GreedyLabelsWitness ==
    /\ labelPc = "done"
    /\ Len(labelOrder) = 3
    /\ Len(visibleLabels) = label_count
    /\ labelOrder[2] \notin Kept
    /\ labelOrder[3] \in Kept

\* The graph whose nodes are those of labelNodes inserted in the order o:
\* its k-th node is the node o[k] of labelNodes.
Reinserted(o) == [k \in 1 .. Len(labelNodes) |-> labelNodes[o[k]]]

\* The order o moves nodes only among nodes of the same size.
AmongEqualSizes(o) == \A k \in 1 .. Len(labelNodes) : labelNodes[o[k]].size = labelNodes[k].size

\* The nodes of labelNodes whose labels are visible in the graph Reinserted(o).
VisibleReinserted(o) ==
    LET visible == getVisibleLabels(Reinserted(o))
    IN  {o[visible[k]] : k \in 1 .. Len(visible)}

\* C21: the graphs that differ from the one rendered only in the insertion
\* order of nodes of the same size have the same set of visible labels.
LabelsInsertionOrderFree ==
    labelPc = "done" =>
        \A o \in Orders(Len(labelNodes)) : AmongEqualSizes(o) => VisibleReinserted(o) = Kept

\* C22: during a call of renderFrame every structure is computed at most
\* once and a request returns the value computed during this call from the
\* slice of this call; the graph of the renderer is the copy of this slice.
CachesPerRender ==
    frameCalls > 0 =>
        /\ renderer.g = <<rendered>>
        /\ \A st \in Structures :
              /\ computations[st] <= 1
              /\ Present(renderer.cache[st]) =>
                    /\ computations[st] = 1
                    /\ renderer.cache[st] = <<[of |-> st, from |-> rendered]>>
        /\ Present(returned) =>
              returned[1].value = <<[of |-> returned[1].of, from |-> rendered]>>

\* In the second call, for another slice than the first, a structure that
\* the first call had computed too is requested for the second time.
CachesWitness ==
    /\ frameCalls = 2
    /\ rendered = 2
    /\ Present(returned)
    /\ returned[1].of = "visibleLabels"
    /\ computations["visibleLabels"] = 1
    /\ computations["nodesBySize"] = 1
    /\ computations["voronoiData"] = 1

\* Some node of the slice lacks a numeric x or y.
MissingCoordinates == \E nid \in 1 .. gOrd : LacksCoordinates(given[nid])

\* The coordinates are inside the disc of radius 5 * sqrt(g.order).
InDisc(attrs) ==
    LET x == attrs.x[1]
        y == attrs.y[1]
    IN  (x.n * x.n + y.n * y.n) * x.root <= 25 * gOrd * x.d * x.d

\* The attributes a node of the slice lacked have their default values in
\* ns.g.
DefaultsAdded ==
    \A nid \in 1 .. gOrd :
        LET was == given[nid]
            now == objects[nsG[1][nid]]
        IN  /\ LacksCoordinates(was) => InDisc(now)
            /\ ~isNumeric(was.size) => now.size = <<Integer(1)>>
            /\ was.color = Absent => now.color = <<"#665">>
            /\ was.label = Absent => now.label = <<"">>

\* C23: when a node of the slice lacks a numeric x or y, ns.init adds the
\* default attributes and the rendering goes on to its frame: it does not
\* end on an exception.
DefaultingThenFrame ==
    (initPc # "notStarted" /\ MissingCoordinates) =>
        /\ DefaultsAdded
        /\ initPc # "uncaught"

\* C24: after ns.rescaleGraphToGraphicSpace the disc of every node is
\* inside the rectangle the margins leave.
DiscsInsideMargins ==
    initPc = "initialized" =>
        \A nid \in 1 .. gOrd :
            LET n == objects[nsG[1][nid]]
                x == n.x[1]
                y == n.y[1]
                size == n.size[1]
            IN  /\ margin.l * x.d <= x.n - size.n
                /\ x.n + size.n <= (dim.w - margin.r) * x.d
                /\ margin.t * y.d <= y.n - size.n
                /\ y.n + size.n <= (dim.h - margin.b) * y.d

\* C25: at every position of renderFrame, and so when the rendering has
\* returned, every node object of the slice has the attributes it had when
\* renderFrame was called: x, y, size, color, label, and no vid.
InputUntouched == \A a \in 1 .. gOrd : objects[a] = given[a]

\* The rendering has returned, and in ns.g every node has a vid and other
\* coordinates than in the slice.
InputUntouchedWitness ==
    /\ initPc = "returned"
    /\ gOrd = 2
    /\ \A nid \in 1 .. gOrd :
          /\ objects[nsG[1][nid]].vid = <<nid>>
          /\ objects[nsG[1][nid]].x # given[nid].x
          /\ objects[nsG[1][nid]].y # given[nid].y
          /\ objects[nsG[1][nid]].size # given[nid].size

\* C26: each sweep of the overlap removal is a pass of its own: when the
\* overlap removal is over, noverlap.assign was called three times, whether
\* or not a call threw.
OverlapSweepsIsolated == layoutPc = "update" => sweeps = 3

\* C27: when the layout of a slice after the first starts, lastNodesIndex
\* has exactly the ids of the slice before, each with its final position
\* there, and a node that is not in the slice before has no coordinate,
\* whatever position it had in an earlier slice: it is seeded as a new node.
IndexLivesOneBoundary ==
    (~Present(sample) /\ layoutPc = "initialPositions" /\ sliceIndex > 1) =>
        LET before == data[sliceIndex - 1]
        IN  /\ DOMAIN lastNodesIndex = Ids(before)
            /\ \A nid \in Ids(before) :
                  lastNodesIndex[nid] = [x |-> Attributes(before.nodes, nid).x,
                                         y |-> Attributes(before.nodes, nid).y]
            /\ \A k \in 1 .. Len(g) :
                  g[k].id \notin Ids(before) => g[k].x = Absent /\ g[k].y = Absent

\* The layout of the third slice starts with a node that the first slice
\* left at a position other than 0 and that the second slice does not have.
IndexLivesOneBoundaryWitness ==
    /\ ~Present(sample)
    /\ layoutPc = "initialPositions"
    /\ sliceIndex = 3
    /\ \E k \in 1 .. Len(g) :
          /\ g[k].id \notin Ids(data[2])
          /\ g[k].id \in Ids(data[1])
          /\ ~LacksCoordinate(Attributes(data[1].nodes, g[k].id))

\* C28: a sample index that the range check of layout-slices lets through
\* is the index of a slice of the file: once the script is past the check
\* without exiting, data.slices[options.sample] is defined.
SampleGuardSound ==
    (Present(sample) /\ layoutPc \notin {"off", "start", "sample", "exited"}) =>
        sample[1] + 1 \in 1 .. Len(data)

\* C29: for n >= 1 a string of at most n characters is returned as it is,
\* and a longer one is returned as a prefix of it followed by one ellipsis,
\* n characters at most in all.
TruncationKeepsShortLabels ==
    (Present(truncated) /\ maxLength >= 1) =>
        IF Len(labelString) <= maxLength
        THEN truncated[1] = labelString
        ELSE /\ Len(truncated[1]) <= maxLength
             /\ truncated[1][Len(truncated[1])] = Ellipsis
             /\ SubSeq(truncated[1], 1, Len(truncated[1]) - 1)
                  = SubSeq(labelString, 1, Len(truncated[1]) - 1)

\* C30: the path of a drawn edge whose ends are at different positions
\* starts at the source, ends at the target, and at least one segment of it
\* is stroked.
EdgePolylineJoinsEnds ==
    (edgePc = "drawn" /\ n_s # n_t) =>
        /\ path # <<>>
        /\ path[1] = n_s
        /\ path[Len(path)] = n_t
        /\ Len(strokes) >= 1
====
